---- MODULE Spec2Model ----
(***************************************************************************)
(* Model of the agentic call-analysis engine:                              *)
(*   src/with_langchain/orchestrator.py  (tools, AnalysisResult,           *)
(*                                         CallAnalysisOrchestrator)       *)
(*   src/with_langchain/main.py          (CallAnalysisApp.analyze_call)    *)
(*   src/api_langchain.py                (AnalysisResponse, endpoints)     *)
(*   src/api_main.py                     (extract_langchain_result,        *)
(*                                         background_analyze)             *)
(*                                                                         *)
(* Text is a sequence of words (the transcript joined by single spaces);   *)
(* Python's `kw in text.lower()` is Contains(text, kw).  Python values     *)
(* that can have several types are tagged records (see StrV .. Missing).   *)
(***************************************************************************)
EXTENDS Integers, Sequences, FiniteSets, TLC

\* ------------------------------------------------------------------ bounds
\* tool calls the reasoning loop makes before its final answer (or failure)
MaxToolCalls == 1
\* words of a transcript handed to a single tool in SpecTools
MaxWords == 2

\* ------------------------------------------------------------ Python values
\* None for an Optional[str] argument
NONE == "<None>"
\* None for an Optional transcript (a transcript is a sequence of words)
NoneText == <<"<None>">>

\* Python truthiness of an Optional[str]: None and "" are falsy
Truthy(s) == s # NONE /\ s # ""
\* Python truthiness of an Optional transcript
TruthyText(t) == t # NoneText /\ t # <<>>

StrV(x) == [k |-> "str", s |-> x, n |-> 0, b |-> FALSE, l |-> <<>>]
IntV(x) == [k |-> "int", s |-> "", n |-> x, b |-> FALSE, l |-> <<>>]
BoolV(x) == [k |-> "bool", s |-> "", n |-> 0, b |-> x, l |-> <<>>]
ListV(x) == [k |-> "list", s |-> "", n |-> 0, b |-> FALSE, l |-> x]
\* the key is absent from the dict
Missing == [k |-> "missing", s |-> "", n |-> 0, b |-> FALSE, l |-> <<>>]

\* a value that is no dict: the set a Python set display evaluates to
NotMapping == [k |-> "set", s |-> "", n |-> 0, b |-> FALSE, l |-> <<>>]

\* the nine fields of AnalysisResult
Fields ==
  {"primary_intent", "sentiment", "tone", "conversation_rating", "need_callback",
   "escalation_required", "fraud_risk", "follow_up_tasks", "summary"}
\* keys a parsed record may carry: the nine fields and one the schema lacks
Keys == Fields \cup {"confidence"}
\* json_data = {}
EmptyRecord == [f \in Keys |-> Missing]
\* json_data when it is a set and no dict (it has no keys: every lookup is NotMapping)
SetValue == [f \in Keys |-> NotMapping]
IsMapping(rec) == rec # SetValue
KeysOf(rec) == IF IsMapping(rec) THEN {f \in Keys : rec[f].k # "missing"} ELSE {}

\* ------------------------------------------------------------------- text
\* str.lower() on one word
Lower(w) ==
  CASE w = "Loan" -> "loan"
    [] w = "FRAUD" -> "fraud"
    [] w = "Manager" -> "manager"
    [] w = "Call" -> "call"
    [] w = "SORRY" -> "sorry"
    [] w = "Angry" -> "angry"
    [] OTHER -> w

\* the keywords that occur as substrings of one lower-case word
Subs(w) ==
  CASE w = "documents" -> {"document"}
    [] w = "thanks" -> {"thank"}
    [] w = "badly" -> {"bad"}
    [] w = "loans" -> {"loan"}
    [] OTHER -> {w}

\* kw in text.lower(), kw a single word
Contains(text, kw) == \E i \in DOMAIN text : kw \in Subs(Lower(text[i]))
\* "call back" in text.lower(): two adjacent words
ContainsCallBack(text) ==
  \E i \in DOMAIN text :
    /\ i + 1 \in DOMAIN text
    /\ Lower(text[i]) = "call"
    /\ Lower(text[i + 1]) = "back"

\* mutant: the tool's upper-case label is passed on as it is
CapitalizeOmitted(s) == s

\* str.capitalize(): first letter upper case, the rest lower case
Capitalize(s) ==
  CASE s = "NEGATIVE" -> "Negative"
    [] s = "POSITIVE" -> "Positive"
    [] s = "NEUTRAL" -> "Neutral"
    [] OTHER -> s

\* ------------------------------------------------------------------ tools
\* "demo" in audio_file_path.lower() or audio_file_path == "sample.wav"
IsDemoPath(p) == p \in {"demo.wav", "Demo_call.WAV", "sample.wav"}
DemoTranscript ==
  <<"hello", "help", "loan", "payment", "job", "plan", "upload", "documents", "status">>
GenericTranscript(p) ==
  <<"transcript", "of", p, "customer", "needs", "assistance", "with", "banking", "services">>

\* transcribe_audio: the returned text; the file system is never consulted
transcribe_audio(p) == IF IsDemoPath(p) THEN DemoTranscript ELSE GenericTranscript(p)

\* mutant: the keywords are looked up in the transcript as written (no lower())
classify_intentCaseSensitive(t) ==
  IF \E i \in DOMAIN t : "loan" \in Subs(t[i])
    THEN [intent |-> "loan_repayment_query", confidence |-> 90]
    ELSE IF \E i \in DOMAIN t : Subs(t[i]) \cap {"fraud", "unauthorized"} # {}
      THEN [intent |-> "fraud_report", confidence |-> 90]
      ELSE [intent |-> "general_inquiry", confidence |-> 50]
\* mutant: the fraud check comes before the loan check
classify_intentFraudFirst(t) ==
  IF Contains(t, "fraud") \/ Contains(t, "unauthorized")
    THEN [intent |-> "fraud_report", confidence |-> 90]
    ELSE IF Contains(t, "loan")
      THEN [intent |-> "loan_repayment_query", confidence |-> 90]
      ELSE [intent |-> "general_inquiry", confidence |-> 50]

\* lines 51-65; confidence in hundredths (0.9 is 90, 0.5 is 50)
classify_intent(t) ==
  IF Contains(t, "loan")
    THEN [intent |-> "loan_repayment_query", confidence |-> 90]
    ELSE IF Contains(t, "fraud") \/ Contains(t, "unauthorized")
      THEN [intent |-> "fraud_report", confidence |-> 90]
      ELSE [intent |-> "general_inquiry", confidence |-> 50]

Requirement(ty, pr, de) == [type |-> ty, priority |-> pr, description |-> de]
\* mutant: the checks are chained with elif, the first match ends them
detect_requirementsElif(t) ==
  IF Contains(t, "document") \/ Contains(t, "upload")
    THEN <<Requirement("document_upload", "MEDIUM", "Needs to submit verification documents")>>
    ELSE IF ContainsCallBack(t) \/ Contains(t, "callback")
      THEN <<Requirement("callback_request", "MEDIUM", "Customer requested a call back")>>
      ELSE IF Contains(t, "supervisor") \/ Contains(t, "manager")
        THEN <<Requirement("escalation", "HIGH", "Requested supervisor attention")>>
        ELSE <<>>
\* mutant: every keyword of a check adds its own entry
detect_requirementsPerKeyword(t) ==
  (IF Contains(t, "document")
     THEN <<Requirement("document_upload", "MEDIUM", "Needs to submit verification documents")>>
     ELSE <<>>)
  \o (IF Contains(t, "upload")
        THEN <<Requirement("document_upload", "MEDIUM", "Needs to submit verification documents")>>
        ELSE <<>>)
  \o (IF ContainsCallBack(t) \/ Contains(t, "callback")
        THEN <<Requirement("callback_request", "MEDIUM", "Customer requested a call back")>>
        ELSE <<>>)
  \o (IF Contains(t, "supervisor") \/ Contains(t, "manager")
        THEN <<Requirement("escalation", "HIGH", "Requested supervisor attention")>>
        ELSE <<>>)

\* lines 67-84
detect_requirements(t) ==
  (IF Contains(t, "document") \/ Contains(t, "upload")
     THEN <<Requirement("document_upload", "MEDIUM", "Needs to submit verification documents")>>
     ELSE <<>>)
  \o (IF ContainsCallBack(t) \/ Contains(t, "callback")
        THEN <<Requirement("callback_request", "MEDIUM", "Customer requested a call back")>>
        ELSE <<>>)
  \o (IF Contains(t, "supervisor") \/ Contains(t, "manager")
        THEN <<Requirement("escalation", "HIGH", "Requested supervisor attention")>>
        ELSE <<>>)

\* mutant: the positive family is checked first
analyze_sentimentPositiveFirst(t) ==
  IF \E w \in {"thank", "great", "happy"} : Contains(t, w)
    THEN [sentiment |-> "POSITIVE", score |-> 80, emotion |-> "contentment"]
    ELSE IF \E w \in {"angry", "upset", "frustrated", "bad"} : Contains(t, w)
      THEN [sentiment |-> "NEGATIVE", score |-> 80, emotion |-> "frustration"]
      ELSE [sentiment |-> "NEUTRAL", score |-> 50, emotion |-> "neutral"]

\* lines 86-100; score in hundredths
analyze_sentiment(t) ==
  IF \E w \in {"angry", "upset", "frustrated", "bad"} : Contains(t, w)
    THEN [sentiment |-> "NEGATIVE", score |-> 80, emotion |-> "frustration"]
    ELSE IF \E w \in {"thank", "great", "happy"} : Contains(t, w)
      THEN [sentiment |-> "POSITIVE", score |-> 80, emotion |-> "contentment"]
      ELSE [sentiment |-> "NEUTRAL", score |-> 50, emotion |-> "neutral"]

Min(a, b) == IF a <= b THEN a ELSE b
\* mutant: the apology bonus is missing
score_agent_performanceNoApology(t, sentiment) ==
  [overall_score |-> Min(IF sentiment = "NEGATIVE" THEN 70 ELSE 75, 100)]

\* overall_score of score_agent_performance (all its values are whole numbers)
score_agent_performance(t, sentiment) ==
  LET base == 75
      s1 == IF sentiment = "NEGATIVE" THEN base - 5 ELSE base
      s2 == IF Contains(t, "apologize") \/ Contains(t, "sorry") THEN s1 + 10 ELSE s1
  IN  [overall_score |-> Min(s2, 100)]

\* ------------------------------------------------------ AnalysisResult
\* conversation_rating: int = Field(..., ge=1, le=10)
RatingMin == 1
RatingMax == 10

StrFields == {"primary_intent", "sentiment", "tone", "summary"}
BoolFields == {"need_callback", "escalation_required", "fraud_risk"}

\* the field's value is rejected by AnalysisResult (absent, wrong kind, out of range)
FieldError(f, v) ==
  CASE f \in StrFields -> v.k # "str"
    [] f \in BoolFields -> v.k # "bool"
    [] f = "conversation_rating" -> ~(v.k = "int" /\ v.n >= RatingMin /\ v.n <= RatingMax)
    [] f = "follow_up_tasks" -> v.k # "list"
    [] OTHER -> FALSE

\* AnalysisResult(**json_data): the fields the ValidationError lists (empty: it validates);
\* ** applied to a value that is no mapping raises TypeError
ValidationErrors(rec) ==
  IF IsMapping(rec) THEN {f \in Fields : FieldError(f, rec[f])} ELSE {"TypeError"}
\* validated_result.model_dump(): the nine fields, keys outside the schema dropped
model_dump(rec) == [f \in Keys |-> IF f \in Fields THEN rec[f] ELSE Missing]

\* ------------------------------------------------- final message content
\* A final message is a sequence of tokens: prose without braces, "{", "}",
\* and the text between two braces: the key/value pairs of record `id`,
\* quoted with q ("dq": double quotes only, "sq": single quotes only) and
\* with literals lit ("json": true/false, "py": True/False, "both": neither
\* occurs, "bad": not a value in either syntax, "set": the text is a list of
\* literals without keys, a Python set display).  NotStr stands for a content
\* that is not a string (a list of content blocks).
Prose == [t |-> "prose", id |-> "", q |-> "", lit |-> ""]
Open == [t |-> "open", id |-> "", q |-> "", lit |-> ""]
Close == [t |-> "close", id |-> "", q |-> "", lit |-> ""]
Body(i, qu, li) == [t |-> "body", id |-> i, q |-> qu, lit |-> li]
NotStr == [t |-> "notstr", id |-> "", q |-> "", lit |-> ""]

ValidRec ==
  [f \in Keys |->
    CASE f = "primary_intent" -> StrV("billing_dispute")
      [] f = "sentiment" -> StrV("Positive")
      [] f = "tone" -> StrV("Polite")
      [] f = "conversation_rating" -> IntV(8)
      [] f = "need_callback" -> BoolV(TRUE)
      [] f = "escalation_required" -> BoolV(FALSE)
      [] f = "fraud_risk" -> BoolV(FALSE)
      [] f = "follow_up_tasks" -> ListV(<<"Send statement">>)
      [] f = "summary" -> StrV("Customer asked about a charge")
      [] OTHER -> Missing]

\* the records the model's final answers write
BodyContent(i) ==
  CASE i = "valid" -> ValidRec
    [] i = "upper" -> [ValidRec EXCEPT !["sentiment"] = StrV("NEGATIVE")]
    [] i = "mood" -> [ValidRec EXCEPT !["sentiment"] = StrV("Frustrated")]
    [] i = "rating0" -> [ValidRec EXCEPT !["conversation_rating"] = IntV(0)]
    [] i = "rating11" -> [ValidRec EXCEPT !["conversation_rating"] = IntV(11)]
    [] i = "rating1" -> [ValidRec EXCEPT !["conversation_rating"] = IntV(1)]
    [] i = "nosummary" -> [ValidRec EXCEPT !["summary"] = Missing]
    [] i = "notasks" -> [ValidRec EXCEPT !["follow_up_tasks"] = Missing]
    [] i = "badkind" -> [ValidRec EXCEPT !["conversation_rating"] = StrV("high")]
    [] i = "extra" -> [ValidRec EXCEPT !["confidence"] = IntV(90)]
    [] i = "partial" ->
         [EmptyRecord EXCEPT !["sentiment"] = StrV("Positive"),
                             !["primary_intent"] = StrV("x")]
    [] OTHER -> EmptyRecord

BodyTokens ==
  {Body(i, "dq", "json") :
     i \in {"valid", "upper", "mood", "rating0", "rating11", "rating1", "nosummary",
            "notasks", "badkind", "extra"}}
  \cup {Body("valid", "sq", "json"), Body("valid", "sq", "py"), Body("valid", "dq", "py"),
        Body("valid", "dq", "bad"), Body("partial", "sq", "both"),
        Body("items", "sq", "set")}

\* the final answers the reasoning loop may give
FinalMessages ==
  {<<>>, <<Prose>>, <<Open, Close>>, <<Close, Prose, Open>>, <<Open, Prose, Close>>,
   <<NotStr>>, <<Prose, Open, Body("valid", "sq", "py"), Close>>}
  \cup {<<Open, b, Close>> : b \in BodyTokens}
  \cup {<<Prose, Open, b, Close, Prose>> : b \in BodyTokens}
  \cup {<<Open, Body("valid", "dq", "json")>>,
        <<Open, Body("valid", "dq", "json"), Close, Prose, Open,
          Body("upper", "dq", "json"), Close>>}

\* re.search raises TypeError when the content is not a string
IsString(msg) == \A i \in DOMAIN msg : msg[i].t # "notstr"
\* re.search(r'(\{.*\})', content, re.DOTALL): greedy, first "{" to last "}"
Opens(msg) == {i \in DOMAIN msg : msg[i].t = "open"}
Closes(msg) == {i \in DOMAIN msg : msg[i].t = "close"}
MinOf(S) == CHOOSE x \in S : \A y \in S : x <= y
MaxOf(S) == CHOOSE x \in S : \A y \in S : y <= x
HasMatch(msg) == \E i \in Opens(msg) : \E j \in Closes(msg) : i < j
MatchGroup(msg) == SubSeq(msg, MinOf(Opens(msg)), MaxOf(Closes(msg)))

HasSingle(span) == \E i \in DOMAIN span : span[i].t = "body" /\ span[i].q = "sq"
HasDouble(span) == \E i \in DOMAIN span : span[i].t = "body" /\ span[i].q = "dq"
\* json_str.replace("'", '"')
ReplaceQuotes(span) ==
  [i \in DOMAIN span |-> IF span[i].q = "sq" THEN [span[i] EXCEPT !.q = "dq"] ELSE span[i]]
\* the string json.loads is given (lines 271-273)
JsonStr(span) == IF HasSingle(span) /\ ~HasDouble(span) THEN ReplaceQuotes(span) ELSE span

\* a span that is an object: "{" "}" or "{" pairs "}"
IsObject(span) ==
  \/ span = <<Open, Close>>
  \/ Len(span) = 3 /\ span[1] = Open /\ span[3] = Close /\ span[2].t = "body"
ObjectValue(span) ==
  IF Len(span) # 3 THEN EmptyRecord
  ELSE IF span[2].lit = "set" THEN SetValue
  ELSE BodyContent(span[2].id)
\* json.loads(s) returns (it raises otherwise)
JsonParses(s) ==
  /\ IsObject(s)
  /\ Len(s) = 3 => (s[2].q = "dq" /\ s[2].lit \in {"json", "both"})
\* ast.literal_eval(s) returns (it raises otherwise)
LiteralParses(s) ==
  /\ IsObject(s)
  /\ Len(s) = 3 => s[2].lit \in {"py", "both", "set"}

\* mutant: the strict parse only (no quote replacement, no literal parse)
ExtractStrictOnly(msg) ==
  IF ~IsString(msg) \/ ~HasMatch(msg) THEN EmptyRecord
  ELSE IF JsonParses(MatchGroup(msg)) THEN ObjectValue(MatchGroup(msg))
  ELSE EmptyRecord
\* mutant: a span that does not parse is kept as far as it reads
ExtractKeepsUnparsed(msg) ==
  IF ~IsString(msg) \/ ~HasMatch(msg) THEN EmptyRecord
  ELSE IF Len(MatchGroup(msg)) >= 2 /\ MatchGroup(msg)[2].t = "body"
         THEN BodyContent(MatchGroup(msg)[2].id)
  ELSE EmptyRecord

\* lines 267-281: json_data after the two parse attempts (both try blocks swallow
\* every exception, the TypeError of re.search included)
Extract(msg) ==
  IF ~IsString(msg) \/ ~HasMatch(msg) THEN EmptyRecord
  ELSE LET span == MatchGroup(msg)
       IN  IF JsonParses(JsonStr(span)) THEN ObjectValue(span)
           ELSE IF LiteralParses(span) THEN ObjectValue(span)
           ELSE EmptyRecord

\* ---------------------------------------------------------------- fallback
\* mutant: any requirement sets the flag
HasTypeAny(reqs, ty) == reqs # <<>>

\* any(r['type'] == ty for r in reqs)
HasType(reqs, ty) == \E i \in DOMAIN reqs : reqs[i].type = ty
Descriptions(reqs) == [i \in DOMAIN reqs |-> reqs[i].description]

\* mutant: the rating is rounded to the nearest integer
FallbackRecordRounded(text) ==
  [f \in Keys |->
     IF f = "conversation_rating"
       THEN IntV((score_agent_performance(text, analyze_sentiment(text).sentiment)
                    .overall_score + 5) \div 10)
       ELSE IF f \in Fields THEN StrV("") ELSE Missing]

\* lines 305-320: the record the fallback assembles from the tools' results
FallbackRecord(text) ==
  LET intent == classify_intent(text)
      reqs == detect_requirements(text)
      sent == analyze_sentiment(text)
      score_details == score_agent_performance(text, sent.sentiment)
  IN  [f \in Keys |->
        CASE f = "sentiment" -> StrV(Capitalize(sent.sentiment))
          [] f = "tone" -> StrV("Professional")
          [] f = "conversation_rating" -> IntV(score_details.overall_score \div 10)
          [] f = "need_callback" -> BoolV(HasType(reqs, "callback_request"))
          [] f = "escalation_required" -> BoolV(HasType(reqs, "escalation"))
          [] f = "fraud_risk" -> BoolV(intent.intent = "fraud_report")
          [] f = "primary_intent" -> StrV(intent.intent)
          [] f = "follow_up_tasks" -> ListV(Descriptions(reqs))
          [] f = "summary" -> StrV("Rule-based analysis performed due to LLM unavailability")
          [] OTHER -> Missing]

\* =================================================================== state
VARIABLES
  agent,              \* self.agent is not None (False: ChatOllama could not be built)
  files,              \* the audio files that exist
  frontend,           \* who called CallAnalysisApp.analyze_call
  audio_file,         \* analyze_call's audio_file argument
  transcript,         \* analyze_call's transcript argument
  session_arg,        \* analyze_call's session_id argument
  session_id,         \* the orchestrator's resolved session id
  pc,                 \* position of the run
  states,             \* orchestrator states the run has entered, in order
  toolLog,            \* tool invocations, in order: [tool, by, arg]
  final_msg_content,  \* result["messages"][-1].content
  json_data,          \* the extracted record
  envelope,           \* the dict analyze_call returned
  exc,                \* the exception analyze_call raised ("" none)
  db,                 \* rows of call_analysis (sqlite)
  http,               \* api_langchain's response
  call,               \* the unified API's row of table calls
  toolCall,           \* SpecTools: the last direct tool invocation and its result
  runs,               \* SpecSessions: each call of the orchestrator (arguments, position,
                      \*   what ainvoke did, the envelope returned)
  frames,             \* SpecSessions: the local variables of each call's coroutine frame
  checkpoints,        \* SpecSessions: the checkpointer's saved messages per thread_id
  tasks,              \* SpecUnified: the background tasks added so far, in order
  reachable           \* SpecUnified: get_connection() succeeds

vars ==
  <<agent, files, frontend, audio_file, transcript, session_arg, session_id, pc, states,
    toolLog, final_msg_content, json_data, envelope, exc, db, http, call, toolCall,
    runs, frames, checkpoints, tasks, reachable>>

\* ----------------------------------------------------------- sample inputs
AudioArgs == {NONE, "demo.wav", "missing.wav"}
SampleTranscripts ==
  {<<"hello">>, <<"fraud", "Manager">>, <<"Angry", "SORRY">>, <<"thanks", "Call", "back">>,
   <<"loans", "FRAUD">>, <<"badly">>}
TranscriptArgs == {NoneText, <<>>} \cup SampleTranscripts
SessionArgs == {NONE, "s1"}
\* str(uuid.uuid4())
FreshIds == {"uuid-a"}
\* os.path.join(UPLOAD_DIR, f"{session_id}_{file.filename}")
UploadPath == "uploaded_audio_langchain/uuid-a_call.wav"
ToolNames ==
  {"transcribe_audio", "classify_intent", "detect_requirements", "analyze_sentiment",
   "score_agent_performance", "save_to_database"}

NoEnvelope ==
  [keys |-> {}, status |-> "", session_id |-> "", analysis |-> EmptyRecord,
   validation_error |-> {}]
NoHttp == [code |-> 0, keys |-> {}, status |-> "", session_id |-> "", analysis |-> EmptyRecord]
NoResult == [keys |-> {}, rec |-> EmptyRecord, rating |-> 0, raw_agent_score |-> 0]
NoCall ==
  [status |-> "NONE", transcript |-> NoneText, prebuilt |-> "", langchain_result |-> NoResult]
NoToolCall ==
  [tool |-> "", path |-> "", text |-> <<>>, sentiment |-> "", raised |-> "",
   out_text |-> <<>>, intent |-> "", confidence |-> 0, reqs |-> <<>>,
   out_sentiment |-> "", score |-> 0, analysis |-> EmptyRecord]

\* the concurrent calls of SpecSessions
Runs == {1, 2}
ThreadIds == {"s1", "s2", "uuid-a", "uuid-b"}
NoRun ==
  [pc |-> "idle", audio_file_path |-> NONE, transcript |-> NoneText, session_id |-> NONE,
   outcome |-> "", answer |-> <<>>, prior |-> {}, save_key |-> "", envelope |-> NoEnvelope]
NoMessage == [role |-> "", session |-> "", audio |-> NONE, text |-> <<>>, content |-> <<>>]
NoFrame ==
  [audio_file_path |-> NONE, transcript |-> NoneText, session_id |-> "",
   input_msg |-> NoMessage, thread_id |-> "", messages |-> <<>>]
NoSessions ==
  /\ runs = [r \in Runs |-> NoRun]
  /\ frames = [r \in Runs |-> NoFrame]
  /\ checkpoints = [t \in ThreadIds |-> <<>>]

\* the background tasks of SpecUnified: none added, the database reachable
TaskSlots == {1, 2, 3}
Task(kind) == [kind |-> kind, pc |-> "scheduled", transcript |-> NoneText, prebuilt_res |-> ""]
NoTasks ==
  /\ tasks = <<>>
  /\ reachable = TRUE

Init ==
  /\ agent \in BOOLEAN
  /\ files = {"demo.wav"}
  /\ frontend = "none"
  /\ audio_file = NONE
  /\ transcript = NoneText
  /\ session_arg = NONE
  /\ session_id = ""
  /\ pc = "idle"
  /\ states = <<>>
  /\ toolLog = <<>>
  /\ final_msg_content = <<>>
  /\ json_data = EmptyRecord
  /\ envelope = NoEnvelope
  /\ exc = ""
  /\ db = <<>>
  /\ http = NoHttp
  /\ call = NoCall
  /\ toolCall = NoToolCall
  /\ NoSessions
  /\ NoTasks

\* ---------------------------------------------------------------- callers
\* a caller of CallAnalysisApp.analyze_call (main.py's main(), or any importer)
DirectCall(a, t, s) ==
  /\ pc = "idle"
  /\ frontend' = "direct"
  /\ audio_file' = a
  /\ transcript' = t
  /\ session_arg' = s
  /\ pc' = "app"
  /\ UNCHANGED <<agent, files, session_id, states, toolLog, final_msg_content, json_data,
                 envelope, exc, db, http, call, toolCall, runs, frames,
                 checkpoints, tasks, reachable>>

\* api_langchain POST /analyze/text up to the await
ApiAnalyzeText(t, s) ==
  /\ pc = "idle"
  /\ t # NoneText
  /\ frontend' = "lc_text"
  /\ audio_file' = NONE
  /\ transcript' = t
  /\ \E u \in FreshIds : session_arg' = IF Truthy(s) THEN s ELSE u
  /\ pc' = "app"
  /\ UNCHANGED <<agent, files, session_id, states, toolLog, final_msg_content, json_data,
                 envelope, exc, db, http, call, toolCall, runs, frames,
                 checkpoints, tasks, reachable>>

\* api_langchain POST /analyze/audio up to the await: the upload is written first
ApiAnalyzeAudio ==
  /\ pc = "idle"
  /\ frontend' = "lc_audio"
  /\ files' = files \cup {UploadPath}
  /\ audio_file' = UploadPath
  /\ transcript' = NoneText
  /\ \E u \in FreshIds : session_arg' = u
  /\ pc' = "app"
  /\ UNCHANGED <<agent, session_id, states, toolLog, final_msg_content, json_data,
                 envelope, exc, db, http, call, toolCall, runs, frames,
                 checkpoints, tasks, reachable>>

\* api_main POST /text: the row is inserted TRANSCRIBED and the analysis scheduled
\* (a blank text raises HTTPException inside the try, which answers 500)
AnalyzeTextInput(t) ==
  /\ pc = "idle"
  /\ t # NoneText
  /\ frontend' = "unified"
  /\ IF t = <<>>
       THEN /\ http' = [NoHttp EXCEPT !.code = 500]
            /\ pc' = "rejected"
            /\ UNCHANGED <<call, transcript>>
       ELSE /\ call' = [NoCall EXCEPT !.status = "TRANSCRIBED", !.transcript = t]
            /\ transcript' = t
            /\ pc' = "bg"
            /\ UNCHANGED http
  /\ UNCHANGED <<agent, files, audio_file, session_arg, session_id, states, toolLog,
                 final_msg_content, json_data, envelope, exc, db, toolCall, runs, frames,
                 checkpoints, tasks, reachable>>

\* api_main background_analyze up to the await of langchain_app.analyze_call:
\* status ANALYZING, the transcript read back, the pre-built engine run
BackgroundAnalyzeStart ==
  /\ pc = "bg"
  /\ \E p \in {"result", "error"} :
       call' = [call EXCEPT !.status = "ANALYZING", !.prebuilt = p]
  /\ audio_file' = NONE
  /\ session_arg' = "1"
  /\ pc' = "app"
  /\ UNCHANGED <<agent, files, frontend, transcript, session_id, states, toolLog,
                 final_msg_content, json_data, envelope, exc, db, http, toolCall, runs, frames,
                 checkpoints, tasks, reachable>>

\* ------------------------------------------------ CallAnalysisApp.analyze_call
\* mutant: the check that something was supplied is missing
AppErrorNoInputCheck(a, t, fs) ==
  IF Truthy(a) /\ a \notin fs THEN "FileNotFoundError" ELSE ""
\* mutant: the check that the audio file exists is missing
AppErrorNoExistsCheck(a, t, fs) ==
  IF ~Truthy(a) /\ ~TruthyText(t) THEN "ValueError" ELSE ""
\* mutant: a call that supplies both is rejected
AppErrorExactlyOne(a, t, fs) ==
  IF Truthy(a) /\ a \notin fs THEN "FileNotFoundError"
  ELSE IF Truthy(a) = TruthyText(t) THEN "ValueError"
  ELSE ""

\* main.py 31-35: the exception the boundary raises ("" none)
AppError(a, t, fs) ==
  IF Truthy(a) /\ a \notin fs THEN "FileNotFoundError"
  ELSE IF ~Truthy(a) /\ ~TruthyText(t) THEN "ValueError"
  ELSE ""

AppValidate ==
  /\ pc = "app"
  /\ LET e == AppError(audio_file, transcript, files)
     IN  /\ exc' = e
         /\ pc' = IF e = "" THEN "orch" ELSE "ret"
  /\ UNCHANGED <<agent, files, frontend, audio_file, transcript, session_arg, session_id,
                 states, toolLog, final_msg_content, json_data, envelope, db, http, call,
                 toolCall, runs, frames,
                 checkpoints, tasks, reachable>>

\* ------------------------------------------ CallAnalysisOrchestrator.analyze_call
\* mutant: the caller's session id is ignored
ResolveSessionAlwaysFresh(arg, fresh) == fresh

\* line 245: session_id or str(uuid.uuid4())
ResolveSession(arg, fresh) == IF Truthy(arg) THEN arg ELSE fresh

\* mutant: the missing agent is not checked, the loop is always invoked
OrchInitIgnoresAgent ==
  /\ pc = "orch"
  /\ \E u \in FreshIds : session_id' = IF Truthy(session_arg) THEN session_arg ELSE u
  /\ pc' = "reasoning"
  /\ states' = <<"INIT", "REASONING">>
  /\ UNCHANGED <<agent, files, frontend, audio_file, transcript, session_arg, toolLog,
                 final_msg_content, json_data, envelope, exc, db, http, call, toolCall, runs,
                 frames, checkpoints, tasks, reachable>>

\* lines 245-257: session id resolved, no agent means fallback at once
OrchInit ==
  /\ pc = "orch"
  /\ \E u \in FreshIds : session_id' = ResolveSession(session_arg, u)
  /\ IF agent
       THEN pc' = "reasoning" /\ states' = <<"INIT", "REASONING">>
       ELSE pc' = "fallback" /\ states' = <<"INIT", "FALLBACK">>
  /\ UNCHANGED <<agent, files, frontend, audio_file, transcript, session_arg, toolLog,
                 final_msg_content, json_data, envelope, exc, db, http, call, toolCall, runs, frames,
                 checkpoints, tasks, reachable>>

\* mutant: the sqlite error is not caught
SaveResultRaises(ok) == IF ok THEN "SUCCESS" ELSE "RAISE"

\* save_to_database lines 142-165: the string it returns; ok: sqlite accepted the insert
SaveResult(ok) == IF ok THEN "SUCCESS" ELSE "ERROR"
Row(sid, intent, sentiment, score) ==
  [session_id |-> sid, intent |-> intent, sentiment |-> sentiment, agent_score |-> score]
Entry(tool, by, arg) == [tool |-> tool, by |-> by, arg |-> arg]
LlmCalls == Len(SelectSeq(toolLog, LAMBDA e : e.by = "llm"))

\* self.agent.ainvoke: the loop calls one tool (the model chooses which)
AgentToolCall(tool) ==
  /\ pc = "reasoning"
  /\ LlmCalls < MaxToolCalls
  /\ IF tool = "save_to_database"
       THEN /\ toolLog' = Append(toolLog, Entry(tool, "llm", session_id))
            /\ \E ok \in BOOLEAN :
                 db' = IF SaveResult(ok) = "SUCCESS"
                         THEN Append(db, Row(session_id, "model_intent", "Neutral", 80))
                         ELSE db
       ELSE /\ toolLog' = Append(toolLog, Entry(tool, "llm", ""))
            /\ UNCHANGED db
  /\ UNCHANGED <<agent, files, frontend, audio_file, transcript, session_arg, session_id, pc,
                 states, final_msg_content, json_data, envelope, exc, http, call, toolCall, runs, frames,
                 checkpoints, tasks, reachable>>

\* self.agent.ainvoke returns: the last message is the model's final answer
AgentFinal(msg) ==
  /\ pc = "reasoning"
  /\ final_msg_content' = msg
  /\ pc' = "extracting"
  /\ states' = Append(states, "EXTRACTING")
  /\ UNCHANGED <<agent, files, frontend, audio_file, transcript, session_arg, session_id,
                 toolLog, json_data, envelope, exc, db, http, call, toolCall, runs, frames,
                 checkpoints, tasks, reachable>>

\* mutant: the exception is not caught
OnAgentExceptionSurfaced == "raise"

\* line 298-300: what an exception inside the try leads to
OnAgentException == "fallback"

\* self.agent.ainvoke raises (backend unreachable, transport or tool error)
AgentRaise ==
  /\ pc = "reasoning"
  /\ IF OnAgentException = "fallback"
       THEN pc' = "fallback" /\ states' = Append(states, "FALLBACK") /\ UNCHANGED exc
       ELSE pc' = "ret" /\ exc' = "AgentError" /\ UNCHANGED states
  /\ UNCHANGED <<agent, files, frontend, audio_file, transcript, session_arg, session_id,
                 toolLog, final_msg_content, json_data, envelope, db, http, call,
                 toolCall, runs, frames,
                 checkpoints, tasks, reachable>>

\* lines 265-281
ExtractStep ==
  /\ pc = "extracting"
  /\ json_data' = Extract(final_msg_content)
  /\ pc' = "validating"
  /\ states' = Append(states, "VALIDATING")
  /\ UNCHANGED <<agent, files, frontend, audio_file, transcript, session_arg, session_id,
                 toolLog, final_msg_content, envelope, exc, db, http, call, toolCall, runs, frames,
                 checkpoints, tasks, reachable>>

\* lines 285-289
SuccessEnvelope(sid, rec) ==
  [keys |-> {"status", "session_id", "analysis"}, status |-> "success", session_id |-> sid,
   analysis |-> model_dump(rec), validation_error |-> {}]
\* mutant: the validation error is swallowed
DegradedEnvelopeSwallowed(sid, rec) ==
  [keys |-> {"status", "session_id", "analysis"}, status |-> "success", session_id |-> sid,
   analysis |-> rec, validation_error |-> {}]

\* lines 290-297
DegradedEnvelope(sid, rec) ==
  [keys |-> {"status", "session_id", "analysis", "validation_error"}, status |-> "success",
   session_id |-> sid, analysis |-> rec, validation_error |-> ValidationErrors(rec)]
\* lines 331-335
FallbackEnvelope(sid, rec) ==
  [keys |-> {"status", "session_id", "analysis"}, status |-> "success", session_id |-> sid,
   analysis |-> rec, validation_error |-> {}]

\* mutant: a validation failure runs the fallback
ValidateStepFallsBack ==
  /\ pc = "validating"
  /\ IF ValidationErrors(json_data) = {}
       THEN /\ envelope' = SuccessEnvelope(session_id, json_data)
            /\ pc' = "ret"
            /\ states' = states \o <<"SUCCESS", "DONE">>
       ELSE /\ pc' = "fallback"
            /\ states' = Append(states, "FALLBACK")
            /\ UNCHANGED envelope
  /\ UNCHANGED <<agent, files, frontend, audio_file, transcript, session_arg, session_id,
                 toolLog, final_msg_content, json_data, exc, db, http, call, toolCall, runs,
                 frames, checkpoints, tasks, reachable>>

\* lines 283-297
ValidateStep ==
  /\ pc = "validating"
  /\ envelope' = IF ValidationErrors(json_data) = {}
                   THEN SuccessEnvelope(session_id, json_data)
                   ELSE DegradedEnvelope(session_id, json_data)
  /\ pc' = "ret"
  /\ states' = states \o <<"SUCCESS", "DONE">>
  /\ UNCHANGED <<agent, files, frontend, audio_file, transcript, session_arg, session_id,
                 toolLog, final_msg_content, json_data, exc, db, http, call, toolCall, runs, frames,
                 checkpoints, tasks, reachable>>

\* mutant: an audio path is transcribed even when a transcript was given
FallbackTextPrefersAudio(a, t) == IF Truthy(a) THEN transcribe_audio(a) ELSE t

\* line 304: transcript or transcribe_audio.invoke(...)
FallbackText(a, t) == IF TruthyText(t) THEN t ELSE transcribe_audio(a)
\* mutant: the save comes first and the score is given the default sentiment
FallbackLogSaveFirst(a, t, sid) ==
  <<Entry("save_to_database", "fallback", sid), Entry("classify_intent", "fallback", ""),
    Entry("detect_requirements", "fallback", ""), Entry("analyze_sentiment", "fallback", ""),
    Entry("score_agent_performance", "fallback", "NEUTRAL")>>

\* lines 304-329: the tools the fallback invokes, in order, with the argument that matters
FallbackLog(a, t, sid) ==
  (IF TruthyText(t) THEN <<>> ELSE <<Entry("transcribe_audio", "fallback", a)>>)
  \o <<Entry("classify_intent", "fallback", ""), Entry("detect_requirements", "fallback", ""),
       Entry("analyze_sentiment", "fallback", ""),
       Entry("score_agent_performance", "fallback",
             analyze_sentiment(FallbackText(a, t)).sentiment),
       Entry("save_to_database", "fallback", sid)>>

\* _run_fallback_analysis, lines 302-335 (synchronous)
FallbackStep ==
  /\ pc = "fallback"
  /\ IF ~TruthyText(transcript) /\ audio_file = NONE
       THEN \* the tool's argument schema rejects None
            /\ exc' = "ValidationError"
            /\ toolLog' = Append(toolLog, Entry("transcribe_audio", "fallback", audio_file))
            /\ UNCHANGED <<envelope, db, states>>
       ELSE LET text == FallbackText(audio_file, transcript)
                intent == classify_intent(text)
                sent == analyze_sentiment(text)
                score == score_agent_performance(text, sent.sentiment)
            IN  /\ toolLog' = toolLog \o FallbackLog(audio_file, transcript, session_id)
                /\ \E ok \in BOOLEAN :
                     IF SaveResult(ok) = "RAISE"
                       THEN /\ exc' = "OperationalError"
                            /\ UNCHANGED <<envelope, db, states>>
                       ELSE /\ db' = IF SaveResult(ok) = "SUCCESS"
                                       THEN Append(db, Row(session_id, intent.intent,
                                                           sent.sentiment,
                                                           score.overall_score))
                                       ELSE db
                            /\ envelope' = FallbackEnvelope(session_id, FallbackRecord(text))
                            /\ states' = states \o <<"SUCCESS", "DONE">>
                            /\ UNCHANGED exc
  /\ pc' = "ret"
  /\ UNCHANGED <<agent, files, frontend, audio_file, transcript, session_arg, session_id,
                 final_msg_content, json_data, http, call, toolCall, runs, frames,
                 checkpoints, tasks, reachable>>

\* ---------------------------------------------------------------- returns
\* the run returns to a direct caller: the envelope or the exception is the caller's
ReturnDirect ==
  /\ pc = "ret"
  /\ frontend = "direct"
  /\ pc' = "done"
  /\ UNCHANGED <<agent, files, frontend, audio_file, transcript, session_arg, session_id,
                 states, toolLog, final_msg_content, json_data, envelope, exc, db, http,
                 call, toolCall, runs, frames,
                 checkpoints, tasks, reachable>>

\* api_langchain lines 41-44, 65/82: AnalysisResponse(**result) keeps its three fields
AnalysisResponse(env) ==
  [code |-> 200, keys |-> {"status", "session_id", "analysis"}, status |-> env.status,
   session_id |-> env.session_id, analysis |-> env.analysis]

\* api_langchain: the rest of the endpoint (an exception answers HTTP 500, also the
\* ValidationError of AnalysisResponse for an analysis that is no dict)
ApiRespond ==
  /\ pc = "ret"
  /\ frontend \in {"lc_text", "lc_audio"}
  /\ http' = IF exc # "" \/ ~IsMapping(envelope.analysis)
               THEN [NoHttp EXCEPT !.code = 500]
               ELSE AnalysisResponse(envelope)
  /\ pc' = "done"
  /\ UNCHANGED <<agent, files, frontend, audio_file, transcript, session_arg, session_id,
                 states, toolLog, final_msg_content, json_data, envelope, exc, db, call,
                 toolCall, runs, frames,
                 checkpoints, tasks, reachable>>

\* Python truthiness of a value
ValueTruthy(v) ==
  CASE v.k = "str" -> v.s # ""
    [] v.k = "int" -> v.n # 0
    [] v.k = "bool" -> v.b
    [] v.k = "list" -> v.l # <<>>
    [] OTHER -> FALSE
\* dict.get(key, default)
Get(rec, f, default) == IF rec[f].k = "missing" THEN default ELSE rec[f]
\* float(x) raises for a non-numeric string and for a list
FloatRaises(v) == v.k \in {"str", "list"}
FloatOf(v) == IF v.k = "int" THEN v.n ELSE IF v.k = "bool" /\ v.b THEN 1 ELSE 0
UnifiedKeys ==
  {"primary_intent", "sentiment", "tone", "conversation_rating", "summary",
   "follow_up_tasks", "requirements", "raw_agent_score"}

\* api_main lines 83-108: the stored form of the orchestrator's envelope
\* (analysis.get on a value that is no dict raises: {"error": ...})
extract_langchain_result(env) ==
  LET analysis == env.analysis
      rating == Get(analysis, "conversation_rating", IntV(0))
  IN  IF ~IsMapping(analysis) \/ FloatRaises(rating)
        THEN [NoResult EXCEPT !.keys = {"error"}]
        ELSE [keys |-> UnifiedKeys,
              rec |-> [f \in Keys |->
                CASE f = "primary_intent" -> Get(analysis, f, StrV("Unknown"))
                  [] f = "sentiment" -> Get(analysis, f, StrV("Neutral"))
                  [] f = "tone" -> Get(analysis, f, StrV("Neutral"))
                  [] f = "summary" -> Get(analysis, f, StrV(""))
                  [] f = "follow_up_tasks" ->
                       IF ValueTruthy(analysis[f]) THEN analysis[f] ELSE ListV(<<>>)
                  [] OTHER -> Missing],
              rating |-> FloatOf(rating),
              raw_agent_score |-> FloatOf(rating) * 10]

\* api_main background_analyze lines 186-211: both results stored, status COMPLETED
BackgroundAnalyzeStore ==
  /\ pc = "ret"
  /\ frontend = "unified"
  /\ call' = [call EXCEPT
       !.status = "COMPLETED",
       !.langchain_result =
          IF exc # "" THEN [NoResult EXCEPT !.keys = {"error", "status"}]
          ELSE extract_langchain_result(envelope)]
  /\ pc' = "done"
  /\ UNCHANGED <<agent, files, frontend, audio_file, transcript, session_arg, session_id,
                 states, toolLog, final_msg_content, json_data, envelope, exc, db, http,
                 toolCall, runs, frames,
                 checkpoints, tasks, reachable>>

Next ==
  \/ \E a \in AudioArgs, t \in TranscriptArgs, s \in SessionArgs : DirectCall(a, t, s)
  \/ \E t \in TranscriptArgs, s \in SessionArgs : ApiAnalyzeText(t, s)
  \/ ApiAnalyzeAudio
  \/ \E t \in TranscriptArgs : AnalyzeTextInput(t)
  \/ BackgroundAnalyzeStart
  \/ AppValidate
  \/ OrchInit
  \/ \E tool \in ToolNames : AgentToolCall(tool)
  \/ \E msg \in FinalMessages : AgentFinal(msg)
  \/ AgentRaise
  \/ ExtractStep
  \/ ValidateStep
  \/ FallbackStep
  \/ ReturnDirect
  \/ ApiRespond
  \/ BackgroundAnalyzeStore

Spec == Init /\ [][Next]_vars

\* The reasoning backend is down: every ainvoke raises (after any tool calls the loop
\* made), so the loop never returns a final message.  The run is one task that keeps
\* running until it has returned, hence the weak fairness.
NextBackendDown ==
  \/ \E a \in AudioArgs, t \in TranscriptArgs, s \in SessionArgs : DirectCall(a, t, s)
  \/ \E t \in TranscriptArgs, s \in SessionArgs : ApiAnalyzeText(t, s)
  \/ ApiAnalyzeAudio
  \/ \E t \in TranscriptArgs : AnalyzeTextInput(t)
  \/ BackgroundAnalyzeStart
  \/ AppValidate
  \/ OrchInit
  \/ \E tool \in ToolNames : AgentToolCall(tool)
  \/ AgentRaise
  \/ FallbackStep
  \/ ReturnDirect
  \/ ApiRespond
  \/ BackgroundAnalyzeStore

SpecBackendDown == Init /\ [][NextBackendDown]_vars /\ WF_vars(NextBackendDown)

\* ============================================== the tools, invoked directly
ToolWords ==
  {"loan", "FRAUD", "unauthorized", "documents", "upload", "Call", "back", "callback",
   "supervisor", "Manager", "Angry", "upset", "frustrated", "badly", "thanks", "great",
   "happy", "apologize", "SORRY", "hello"}
BoundedSeqs(S, n) == UNION {[1..k -> S] : k \in 0..n}
\* longer transcripts: several keywords of different checks, repeated and in any order
ScenarioTexts ==
  {<<"Manager", "Call", "back">>, <<"call", "back", "hello", "manager">>,
   <<"callback", "supervisor", "Call", "back", "documents", "Manager", "upload">>,
   <<"Manager", "callback", "upload">>, <<"back", "Call", "Manager">>,
   <<"hello", "FRAUD", "thanks", "loan">>, <<"happy", "SORRY", "upset", "unauthorized">>}
ToolTexts == BoundedSeqs(ToolWords, MaxWords) \cup ScenarioTexts
ToolPaths == {"demo.wav", "Demo_call.WAV", "sample.wav", "missing.wav", "call1.wav"}
SentimentArgs == {"NEGATIVE", "POSITIVE", "NEUTRAL", "Negative", ""}

InitTools ==
  /\ agent = FALSE
  /\ files = {"demo.wav", "call1.wav"}
  /\ frontend = "none"
  /\ audio_file = NONE
  /\ transcript = NoneText
  /\ session_arg = NONE
  /\ session_id = ""
  /\ pc = "tools"
  /\ states = <<>>
  /\ toolLog = <<>>
  /\ final_msg_content = <<>>
  /\ json_data = EmptyRecord
  /\ envelope = NoEnvelope
  /\ exc = ""
  /\ db = <<>>
  /\ http = NoHttp
  /\ call = NoCall
  /\ toolCall = NoToolCall
  /\ NoSessions
  /\ NoTasks

others ==
  <<agent, files, frontend, audio_file, transcript, session_arg, session_id, states,
    toolLog, final_msg_content, json_data, envelope, exc, db, http, call, runs, frames,
    checkpoints, tasks, reachable>>

InvokeTranscribe(p) ==
  /\ pc = "tools"
  /\ toolCall' = [NoToolCall EXCEPT !.tool = "transcribe_audio", !.path = p,
                                    !.out_text = transcribe_audio(p)]
  /\ pc' = "tool_done"
  /\ UNCHANGED others

InvokeClassify(t) ==
  /\ pc = "tools"
  /\ toolCall' = [NoToolCall EXCEPT !.tool = "classify_intent", !.text = t,
                                    !.intent = classify_intent(t).intent,
                                    !.confidence = classify_intent(t).confidence]
  /\ pc' = "tool_done"
  /\ UNCHANGED others

InvokeDetect(t) ==
  /\ pc = "tools"
  /\ toolCall' = [NoToolCall EXCEPT !.tool = "detect_requirements", !.text = t,
                                    !.reqs = detect_requirements(t)]
  /\ pc' = "tool_done"
  /\ UNCHANGED others

InvokeSentiment(t) ==
  /\ pc = "tools"
  /\ toolCall' = [NoToolCall EXCEPT !.tool = "analyze_sentiment", !.text = t,
                                    !.out_sentiment = analyze_sentiment(t).sentiment]
  /\ pc' = "tool_done"
  /\ UNCHANGED others

InvokeScore(t, s) ==
  /\ pc = "tools"
  /\ toolCall' = [NoToolCall EXCEPT !.tool = "score_agent_performance", !.text = t,
                                    !.sentiment = s,
                                    !.score = score_agent_performance(t, s).overall_score]
  /\ pc' = "tool_done"
  /\ UNCHANGED others

\* (audio_path, transcript) of a fallback run: a transcript, an audio path, or both
FallbackArgs ==
  ({NONE} \X ToolTexts) \cup (ToolPaths \X {NoneText, <<>>})
    \cup ({"demo.wav"} \X ScenarioTexts)

\* _run_fallback_analysis(audio_path, transcript, session_id) called directly
InvokeFallback(a, t, sid) ==
  /\ pc = "tools"
  /\ TruthyText(t) \/ a # NONE
  /\ LET text == FallbackText(a, t)
         intent == classify_intent(text)
         reqs == detect_requirements(text)
         sent == analyze_sentiment(text)
         score_details == score_agent_performance(text, sent.sentiment)
     IN  /\ toolLog' = FallbackLog(a, t, sid)
         /\ \E ok \in BOOLEAN :
              db' = IF SaveResult(ok) = "SUCCESS"
                      THEN Append(db, Row(sid, intent.intent, sent.sentiment,
                                          score_details.overall_score))
                      ELSE db
         /\ toolCall' = [NoToolCall EXCEPT !.tool = "_run_fallback_analysis",
                                           !.path = a, !.text = text,
                                           !.intent = intent.intent,
                                           !.confidence = intent.confidence,
                                           !.reqs = reqs,
                                           !.out_sentiment = sent.sentiment,
                                           !.score = score_details.overall_score,
                                           !.analysis = FallbackRecord(text)]
  /\ pc' = "tool_done"
  /\ UNCHANGED <<agent, files, frontend, audio_file, transcript, session_arg, session_id,
                 states, final_msg_content, json_data, envelope, exc, http, call, runs,
                 frames, checkpoints, tasks, reachable>>

NextTools ==
  \/ pc = "tools" /\ \E p \in ToolPaths : InvokeTranscribe(p)
  \/ pc = "tools" /\ \E t \in ToolTexts : InvokeClassify(t)
  \/ pc = "tools" /\ \E t \in ToolTexts : InvokeDetect(t)
  \/ pc = "tools" /\ \E t \in ToolTexts : InvokeSentiment(t)
  \/ pc = "tools" /\ \E t \in ToolTexts, s \in SentimentArgs : InvokeScore(t, s)
  \/ pc = "tools" /\ \E x \in FallbackArgs : InvokeFallback(x[1], x[2], "s1")

SpecTools == InitTools /\ [][NextTools]_vars

\* ================================= concurrent calls of the orchestrator
\* Two calls of CallAnalysisOrchestrator.analyze_call on one orchestrator, in one event
\* loop.  A coroutine runs without interruption between two awaits, and the only await
\* is self.agent.ainvoke: a call runs lines 245-259 at once, then waits for the loop, and
\* runs lines 263-300 at once when the loop has returned or raised.
SessAudio == {NONE, "demo.wav"}
SessTranscripts == {NoneText, <<"hello">>, <<"fraud", "Manager">>}
SessSessionArgs == {NONE, "", "s1", "s2"}
SessAnswers ==
  {<<Open, Body("valid", "dq", "json"), Close>>,
   <<Prose, Open, Body("rating11", "dq", "json"), Close, Prose>>,
   <<Prose>>}
\* str(uuid.uuid4()) in call r: two calls do not draw the same id
FreshIdOf(r) == IF r = 1 THEN "uuid-a" ELSE "uuid-b"

\* mutant: the call's variables are kept on the orchestrator object, one for all calls
FrameShared(r) == 1

\* the frame that holds the local variables of call r: every call has its own
Frame(r) == r

\* create_react_agent(..., checkpointer=...): the argument is commented out
Checkpointer == "none"
\* the messages the graph starts from for a thread: without checkpointer nothing is kept
LoadThread(cp, tid) == IF Checkpointer = "none" THEN <<>> ELSE cp[tid]
StoreThread(cp, tid, msgs) ==
  IF Checkpointer = "none" THEN cp ELSE [cp EXCEPT ![tid] = msgs]

\* lines 247-251: the human message
InputMsg(sid, a, t) ==
  [role |-> "human", session |-> sid,
   audio |-> IF TruthyText(t) THEN NONE ELSE a,
   text |-> IF TruthyText(t) THEN t ELSE <<>>,
   content |-> <<>>]
\* the result of the tool the loop calls on the human message it was given
ToolMsg(h) ==
  [role |-> "tool", session |-> "", audio |-> NONE,
   text |-> IF h.text # <<>> THEN <<classify_intent(h.text).intent>>
            ELSE transcribe_audio(h.audio),
   content |-> <<>>]
AiMsg(msg) == [role |-> "ai", session |-> "", audio |-> NONE, text |-> <<>>, content |-> msg]
LastHuman(msgs) ==
  msgs[MaxOf({i \in DOMAIN msgs : msgs[i].role = "human"})]
ToolMsgs(msgs) == Len(SelectSeq(msgs, LAMBDA m : m.role = "tool"))

InitSessions ==
  /\ agent \in BOOLEAN
  /\ files = {"demo.wav"}
  /\ frontend = "none"
  /\ audio_file = NONE
  /\ transcript = NoneText
  /\ session_arg = NONE
  /\ session_id = ""
  /\ pc = "sessions"
  /\ states = <<>>
  /\ toolLog = <<>>
  /\ final_msg_content = <<>>
  /\ json_data = EmptyRecord
  /\ envelope = NoEnvelope
  /\ exc = ""
  /\ db = <<>>
  /\ http = NoHttp
  /\ call = NoCall
  /\ toolCall = NoToolCall
  /\ NoSessions
  /\ NoTasks

single ==
  <<agent, files, frontend, audio_file, transcript, session_arg, session_id, pc, states,
    toolLog, final_msg_content, json_data, envelope, exc, http, call, toolCall, tasks,
    reachable>>

\* _run_fallback_analysis with the arguments read from frame fr; run is call r's record
SessFallback(r, run, fr, out) ==
  LET text == FallbackText(fr.audio_file_path, fr.transcript)
      intent == classify_intent(text)
      sent == analyze_sentiment(text)
      score == score_agent_performance(text, sent.sentiment)
  IN  /\ \E ok \in BOOLEAN :
           db' = IF SaveResult(ok) = "SUCCESS"
                   THEN Append(db, Row(fr.session_id, intent.intent, sent.sentiment,
                                       score.overall_score))
                   ELSE db
      /\ runs' = [runs EXCEPT ![r] =
                    [run EXCEPT !.pc = "returned", !.outcome = out,
                                !.save_key = fr.session_id,
                                !.envelope = FallbackEnvelope(fr.session_id,
                                                              FallbackRecord(text))]]

\* analyze_call is called: lines 245-259 up to the await (without agent: the fallback)
SessCall(r, a, t, s) ==
  /\ pc = "sessions"
  /\ runs[r].pc = "idle"
  /\ Truthy(a) \/ TruthyText(t)
  /\ Truthy(a) => a \in files
  /\ LET sid == ResolveSession(s, FreshIdOf(r))
         input == InputMsg(sid, a, t)
         fr == [audio_file_path |-> a, transcript |-> t, session_id |-> sid,
                input_msg |-> input, thread_id |-> sid,
                messages |-> IF agent THEN LoadThread(checkpoints, sid) \o <<input>>
                             ELSE <<>>]
         run == [NoRun EXCEPT !.audio_file_path = a, !.transcript = t, !.session_id = s]
     IN  /\ frames' = [frames EXCEPT ![Frame(r)] = fr]
         /\ IF agent
              THEN /\ runs' = [runs EXCEPT ![r] =
                        [run EXCEPT !.pc = "reasoning",
                                    !.prior = {q \in Runs \ {r} :
                                                 /\ runs[q].outcome = "final"
                                                 /\ runs[q].envelope.session_id = sid}]]
                   /\ UNCHANGED db
              ELSE SessFallback(r, run, fr, "noagent")
  /\ UNCHANGED <<single, checkpoints>>

\* inside ainvoke: the loop calls a tool and adds its result to the call's messages
SessLoopTool(r) ==
  /\ pc = "sessions"
  /\ runs[r].pc = "reasoning"
  /\ ToolMsgs(frames[Frame(r)].messages) < MaxToolCalls
  /\ frames' = [frames EXCEPT ![Frame(r)].messages =
                  Append(@, ToolMsg(LastHuman(@)))]
  /\ UNCHANGED <<single, runs, db, checkpoints>>

\* ainvoke returns with the model's final answer; lines 263-297 follow at once
SessAnswer(r, msg) ==
  /\ pc = "sessions"
  /\ runs[r].pc = "reasoning"
  /\ LET fr == frames[Frame(r)]
         messages == Append(fr.messages, AiMsg(msg))
         content == messages[Len(messages)].content
         data == Extract(content)
     IN  /\ frames' = [frames EXCEPT ![Frame(r)].messages = messages]
         /\ checkpoints' = StoreThread(checkpoints, fr.thread_id, messages)
         /\ runs' = [runs EXCEPT ![r].pc = "returned", ![r].outcome = "final",
                                 ![r].answer = msg,
                                 ![r].envelope =
                                    IF ValidationErrors(data) = {}
                                      THEN SuccessEnvelope(fr.session_id, data)
                                      ELSE DegradedEnvelope(fr.session_id, data)]
  /\ UNCHANGED <<single, db>>

\* ainvoke raises; lines 298-300 run the fallback at once
SessRaise(r) ==
  /\ pc = "sessions"
  /\ runs[r].pc = "reasoning"
  /\ SessFallback(r, runs[r], frames[Frame(r)], "raise")
  /\ UNCHANGED <<single, frames, checkpoints>>

NextSessions ==
  \/ \E r \in Runs, a \in SessAudio, t \in SessTranscripts, s \in SessSessionArgs :
       SessCall(r, a, t, s)
  \/ \E r \in Runs : SessLoopTool(r)
  \/ \E r \in Runs, msg \in SessAnswers : SessAnswer(r, msg)
  \/ \E r \in Runs : SessRaise(r)

SpecSessions == InitSessions /\ [][NextSessions]_vars

\* ================================================================== claims
Range(q) == {q[i] : i \in DOMAIN q}
\* CallAnalysisApp.analyze_call has been entered
AnalyzeCalled ==
  pc \in {"app", "orch", "reasoning", "extracting", "validating", "fallback", "ret", "done"}
\* CallAnalysisApp.analyze_call has returned or raised
Returned == pc \in {"ret", "done"}
\* the orchestrator is running (past the boundary, not yet returned)
InOrchestrator == pc \in {"orch", "reasoning", "extracting", "validating", "fallback"}
SentimentEnum == {"Positive", "Negative", "Neutral"}
SchemaValid(rec) ==
  /\ ValidationErrors(rec) = {}
  /\ rec["sentiment"].s \in SentimentEnum
\* the input passes INIT
PassesInit ==
  /\ Truthy(audio_file) \/ TruthyText(transcript)
  /\ Truthy(audio_file) => audio_file \in files
ByFallback(e) == e.by = "fallback"
\* the reasoning loop was invoked and ended without a final message: ainvoke raised
ReasoningRaised ==
  /\ "REASONING" \in Range(states)
  /\ pc # "reasoning"
  /\ "EXTRACTING" \notin Range(states)

C2_SchemaInvariant ==
  (Returned /\ exc = "" /\ envelope.status = "success"
     /\ "validation_error" \notin envelope.keys) =>
    /\ envelope.analysis["conversation_rating"].k = "int"
    /\ envelope.analysis["conversation_rating"].n \in RatingMin..RatingMax
    /\ envelope.analysis["sentiment"].k = "str"
    /\ envelope.analysis["sentiment"].s \in SentimentEnum
    /\ envelope.analysis["follow_up_tasks"].k = "list"

\* C3: a call with neither transcript nor audio reference raises ValueError (InputError)
\* at the boundary: the orchestrator is never entered, no reasoning loop, no tool.
C3_InputValidation ==
  (AnalyzeCalled /\ ~Truthy(audio_file) /\ ~TruthyText(transcript)) =>
    /\ ~InOrchestrator
    /\ states = <<>>
    /\ toolLog = <<>>
    /\ envelope = NoEnvelope
    /\ Returned => exc = "ValueError"
C3_Witness ==
  /\ pc = "done"
  /\ frontend = "direct"
  /\ audio_file = NONE
  /\ transcript = <<>>
  /\ exc = "ValueError"

\* C4: when the reasoning loop raises, the run goes straight to FALLBACK: no extraction,
\* no validation, no exception for the caller, and the envelope is the fallback's.
C4_ReasoningExceptionFallsBack ==
  (ReasoningRaised) =>
    /\ pc = "fallback" \/ Returned
    /\ "FALLBACK" \in Range(states)
    /\ "VALIDATING" \notin Range(states)
    /\ final_msg_content = <<>>
    /\ json_data = EmptyRecord
    /\ exc = ""
    /\ Returned =>
         envelope = FallbackEnvelope(session_id,
                      FallbackRecord(FallbackText(audio_file, transcript)))
C4_Witness ==
  /\ pc = "done"
  /\ agent
  /\ states = <<"INIT", "REASONING", "FALLBACK", "SUCCESS", "DONE">>
  /\ Len(toolLog) > 6
  /\ toolLog[1].by = "llm"
  /\ audio_file = "demo.wav"
  /\ ~TruthyText(transcript)
  /\ envelope.analysis["primary_intent"] = StrV("loan_repayment_query")

\* C5: a final message whose extracted record fails validation is returned as a degraded
\* success: status "success", the extracted record as analysis, a non-empty
\* validation_error; the fallback is not run and the orchestrator invokes no tool.
C5_ValidationMissIsDegradedSuccess ==
  (Returned /\ "VALIDATING" \in Range(states) /\ ValidationErrors(json_data) # {}) =>
    /\ exc = ""
    /\ envelope.keys = {"status", "session_id", "analysis", "validation_error"}
    /\ envelope.status = "success"
    /\ envelope.session_id = session_id
    /\ envelope.analysis = json_data
    /\ envelope.validation_error # {}
    /\ "FALLBACK" \notin Range(states)
    /\ \A i \in DOMAIN toolLog : ~ByFallback(toolLog[i])
    /\ db = SelectSeq(db, LAMBDA r : r.intent = "model_intent")
C5_Witness ==
  /\ pc = "done"
  /\ final_msg_content = <<Prose, Open, Body("rating11", "dq", "json"), Close, Prose>>
  /\ envelope.validation_error = {"conversation_rating"}
  /\ envelope.analysis["conversation_rating"] = IntV(11)

\* C6: an input that passes INIT never makes analyze raise or return status "error",
\* whatever the backend does and whether or not the save succeeds; the only exceptions
\* are ValueError and FileNotFoundError, raised before the orchestrator is entered.
C6_OnlyBoundaryFailures ==
  /\ (Returned /\ PassesInit) => (exc = "" /\ envelope.status = "success")
  /\ exc # "" => (exc \in {"ValueError", "FileNotFoundError"} /\ states = <<>>)
C6_Witness ==
  /\ pc = "done"
  /\ audio_file = "demo.wav"
  /\ ~TruthyText(transcript)
  /\ "FALLBACK" \in Range(states)
  /\ db = <<>>
  /\ envelope.status = "success"

\* C7 (as claimed): when validation failed, the response that reaches the caller still
\* carries validation_error (HTTP response of api_langchain, stored langchain_result).
C7_ValidationErrorReachesCaller ==
  (pc = "done" /\ "validation_error" \in envelope.keys) =>
    /\ frontend \in {"lc_text", "lc_audio"} =>
         (http.status = "success" => "validation_error" \in http.keys)
    /\ frontend = "unified" =>
         (call.status = "COMPLETED" => "validation_error" \in call.langchain_result.keys)

\* C8 (as claimed): a call that supplies both a transcript and an audio reference is
\* rejected rather than analyzed.
C8_BothRejected ==
  (AnalyzeCalled /\ Truthy(audio_file) /\ TruthyText(transcript)) =>
    /\ ~InOrchestrator
    /\ Returned => exc # ""
\* C8 (amended): a call is accepted iff at least one of transcript and audio reference is
\* supplied non-empty and a supplied audio reference resolves; a call that supplies both
\* is accepted and analyzed.
C8_AtLeastOneAccepted ==
  /\ Returned => (exc = "" <=> PassesInit)
  /\ (Returned /\ PassesInit) => (envelope.status = "success" /\ states # <<>>)
C8_Witness ==
  /\ pc = "done"
  /\ audio_file = "demo.wav"
  /\ transcript = <<"fraud", "Manager">>
  /\ exc = ""
  /\ envelope.status = "success"
  /\ envelope.analysis["fraud_risk"] = BoolV(TRUE)

\* C9: an audio reference that does not resolve raises FileNotFoundError (NotFoundError)
\* at the boundary, before the reasoning loop or any tool, and no fallback is attempted.
C9_MissingAudioNotFound ==
  (AnalyzeCalled /\ Truthy(audio_file) /\ audio_file \notin files) =>
    /\ ~InOrchestrator
    /\ states = <<>>
    /\ toolLog = <<>>
    /\ envelope = NoEnvelope
    /\ Returned => exc = "FileNotFoundError"
C9_Witness ==
  /\ pc = "done"
  /\ audio_file = "missing.wav"
  /\ TruthyText(transcript)
  /\ exc = "FileNotFoundError"

\* C10 (as claimed): transcribe_audio raises NotFoundError for a path that is no existing
\* audio file, and returns no transcript for it.
C10_TranscribeMissingRaises ==
  (toolCall.tool = "transcribe_audio" /\ toolCall.path \notin files) =>
    /\ toolCall.raised = "FileNotFoundError"
    /\ toolCall.out_text = <<>>

\* C11 (as claimed): in a run that was given a transcript, transcribe_audio is never
\* invoked, neither by the fallback nor by the reasoning loop, whatever tools it chooses.
C11_TranscribeNeverWithTranscript ==
  (AnalyzeCalled /\ TruthyText(transcript)) =>
    \A i \in DOMAIN toolLog : toolLog[i].tool # "transcribe_audio"

\* the extractor has run on the final message
Extracted == "EXTRACTING" \in Range(states) /\ pc # "extracting"

\* C12 (as claimed): whatever the final message content is (any text, braces or none,
\* parseable or not, not a string), extraction raises nothing, ends with a record value
\* and control reaches VALIDATING; no fallback is triggered, nothing reaches the caller.
C12_ExtractorNeverRaises ==
  Extracted =>
    /\ "VALIDATING" \in Range(states)
    /\ "FALLBACK" \notin Range(states)
    /\ exc = ""
    /\ IsMapping(json_data)

\* both parse attempts of the span fail
BothParsesFail(msg) ==
  /\ HasMatch(msg)
  /\ ~JsonParses(JsonStr(MatchGroup(msg)))
  /\ ~LiteralParses(MatchGroup(msg))

\* C13: when the final text has no brace-delimited span, or the strict and the lenient
\* parse of the span both fail, the extracted record is empty and fails validation on
\* every required field: the envelope is a success with validation_error, no fallback.
C13_ExtractionMissIsEmptyRecord ==
  (Extracted /\ IsString(final_msg_content)
     /\ (~HasMatch(final_msg_content) \/ BothParsesFail(final_msg_content))) =>
    /\ json_data = EmptyRecord
    /\ KeysOf(json_data) = {}
    /\ ValidationErrors(json_data) = Fields
    /\ "FALLBACK" \notin Range(states)
    /\ Returned =>
         /\ envelope.analysis = EmptyRecord
         /\ envelope.validation_error = Fields
         /\ "validation_error" \in envelope.keys
C13_Witness ==
  /\ pc = "done"
  /\ final_msg_content = <<Open, Body("valid", "dq", "bad"), Close>>
  /\ envelope.analysis = EmptyRecord
  /\ envelope.validation_error = Fields

\* prose followed by one object written with single quotes only
SingleQuotedAnswer(msg) ==
  /\ Len(msg) \in {4, 5}
  /\ msg[1] = Prose /\ msg[2] = Open /\ msg[4] = Close
  /\ Len(msg) = 5 => msg[5] = Prose
  /\ msg[3].t = "body" /\ msg[3].q = "sq" /\ msg[3].lit \in {"json", "py", "both"}
TwoObjects ==
  <<Open, Body("valid", "dq", "json"), Close, Prose, Open, Body("upper", "dq", "json"),
    Close>>

SaveCalls == Len(SelectSeq(toolLog, LAMBDA e : e.tool = "save_to_database"))
\* some save_to_database call returned "ERROR: ..." (it wrote no row)
SaveFailed == Len(db) < SaveCalls
\* the envelope of the path the run took, as the code builds it when every save succeeds
EnvelopeOfPath ==
  IF "FALLBACK" \in Range(states)
    THEN FallbackEnvelope(session_id, FallbackRecord(FallbackText(audio_file, transcript)))
    ELSE IF ValidationErrors(json_data) = {}
      THEN SuccessEnvelope(session_id, json_data)
      ELSE DegradedEnvelope(session_id, json_data)

\* C15: when save_to_database fails (returns "ERROR", no row written) the run is not
\* aborted: analyze raises nothing and returns the envelope of its path, status
\* "success", the same analysis as with a successful save.
C15_PersistenceFailureNonFatal ==
  (Returned /\ SaveFailed) =>
    /\ exc = ""
    /\ envelope.status = "success"
    /\ envelope = EnvelopeOfPath
C15_Witness ==
  /\ pc = "done"
  /\ SaveFailed
  /\ \E i \in DOMAIN toolLog :
       toolLog[i].tool = "save_to_database" /\ toolLog[i].by = "fallback"
  /\ db = <<>>
  /\ transcript = <<"thanks", "Call", "back">>
  /\ envelope.status = "success"
  /\ envelope.analysis["need_callback"] = BoolV(TRUE)
  /\ envelope.analysis["sentiment"] = StrV("Positive")

RowsOf(sid) == {j \in DOMAIN db : db[j].session_id = sid}

\* C16 (as claimed): save_to_database is an idempotent insert keyed by session: however
\* many saves with one session_id succeeded, the store holds exactly one row for it.
C16_SaveIdempotentBySession ==
  \A i \in DOMAIN db : Cardinality(RowsOf(db[i].session_id)) = 1

\* C17 (as claimed): within one analyze run at most one row is written for the run's
\* session_id, also when the reasoning loop has saved, then raises, and the fallback runs.
C17_AtMostOncePersistence ==
  AnalyzeCalled => Cardinality(RowsOf(session_id)) <= 1

\* the session id call r must end up with: the caller's, or the one it generated
SessionOf(r) ==
  IF runs[r].session_id \notin {NONE, ""} THEN runs[r].session_id ELSE FreshIdOf(r)

\* C18: the envelope's session_id is the caller's session id when one was supplied and
\* a fresh non-empty id otherwise, and the same id is the thread key of the reasoning
\* loop, the key of the fallback's save and the id in the envelope, on every path.
C18_SessionResolution ==
  \A r \in Runs :
    /\ runs[r].pc # "idle" =>
         /\ frames[r].thread_id = SessionOf(r)
         /\ frames[r].input_msg.session = SessionOf(r)
    /\ runs[r].pc = "returned" =>
         /\ runs[r].envelope.session_id = SessionOf(r)
         /\ runs[r].envelope.session_id \notin {NONE, ""}
         /\ runs[r].session_id \in {NONE, ""} =>
              runs[r].envelope.session_id \in {"uuid-a", "uuid-b"}
         /\ runs[r].outcome \in {"raise", "noagent"} =>
              /\ runs[r].save_key = SessionOf(r)
              /\ \A i \in DOMAIN db : db[i].session_id \in {SessionOf(q) : q \in Runs}
C18_Witness ==
  /\ runs[1].pc = "returned" /\ runs[2].pc = "returned"
  /\ runs[1].session_id = "s1" /\ runs[1].outcome = "final"
  /\ "validation_error" \in runs[1].envelope.keys
  /\ runs[1].envelope.session_id = "s1"
  /\ runs[2].session_id = "" /\ runs[2].outcome = "raise"
  /\ runs[2].envelope.session_id = "uuid-b"
  /\ runs[2].save_key = "uuid-b"
  /\ Len(db) = 1 /\ db[1].session_id = "uuid-b"

\* the envelope call r returns when it runs alone with the same arguments and the same
\* behaviour of the reasoning backend
AloneEnvelope(r) ==
  IF runs[r].outcome = "final"
    THEN IF ValidationErrors(Extract(runs[r].answer)) = {}
           THEN SuccessEnvelope(SessionOf(r), Extract(runs[r].answer))
           ELSE DegradedEnvelope(SessionOf(r), Extract(runs[r].answer))
    ELSE FallbackEnvelope(SessionOf(r),
           FallbackRecord(FallbackText(runs[r].audio_file_path, runs[r].transcript)))
Other(r) == 3 - r
\* the messages call r's loop works on come from r's own input and its own answer
OwnMessages(r) ==
  LET msgs == frames[r].messages
      own == InputMsg(SessionOf(r), runs[r].audio_file_path, runs[r].transcript)
  IN  \A i \in DOMAIN msgs :
        /\ msgs[i].role = "human" => (i = 1 /\ msgs[i] = own)
        /\ msgs[i].role = "tool" => msgs[i] = ToolMsg(own)
        /\ msgs[i].role = "ai" => (i = Len(msgs) /\ msgs[i].content = runs[r].answer)

\* C19: two calls with different session ids, interleaved in any order: each returns the
\* envelope it returns when run alone, and its loop sees only its own input, its own
\* tool results and its own final message.
C19_SessionIsolation ==
  \A r \in Runs :
    (runs[r].pc # "idle" /\ SessionOf(r) # SessionOf(Other(r))) =>
      /\ OwnMessages(r)
      /\ runs[r].pc = "returned" => runs[r].envelope = AloneEnvelope(r)
C19_Witness ==
  /\ runs[1].pc = "returned" /\ runs[2].pc = "returned"
  /\ runs[1].session_id = "s1" /\ runs[2].session_id = "s2"
  /\ runs[1].transcript = <<"hello">> /\ runs[2].transcript = <<"fraud", "Manager">>
  /\ runs[1].outcome = "raise" /\ runs[2].outcome = "final"
  /\ Len(frames[2].messages) = 3
  /\ runs[2].prior = {}
  /\ runs[1].envelope.analysis["fraud_risk"] = BoolV(FALSE)
  /\ runs[2].envelope.analysis = ValidRec

\* C20 (as claimed): a call with the session id of an earlier call whose loop has ended
\* gives its loop the earlier call's conversation (its input and its final answer)
\* before its own input message.
C20_SharedContextBySession ==
  \A r \in Runs : \A q \in runs[r].prior :
    /\ \E i \in DOMAIN frames[r].messages : frames[r].messages[i] = frames[q].input_msg
    /\ \E i \in DOMAIN frames[r].messages : frames[r].messages[i] = AiMsg(runs[q].answer)

\* call r ran the Fallback Pipeline and has returned
ViaFallback(r) == runs[r].pc = "returned" /\ runs[r].outcome \in {"raise", "noagent"}
DeterminedFields ==
  {"primary_intent", "sentiment", "need_callback", "escalation_required", "fraud_risk"}

\* C21: two fallback runs on the same transcript return the same primary_intent,
\* sentiment, need_callback, escalation_required and fraud_risk, whatever their session
\* ids and audio arguments, whichever ran first and whether or not the saves succeeded.
C21_FallbackDeterminism ==
  \A r \in Runs : \A q \in Runs :
    (ViaFallback(r) /\ ViaFallback(q) /\ TruthyText(runs[r].transcript)
       /\ runs[r].transcript = runs[q].transcript) =>
      \A f \in DeterminedFields :
        /\ runs[r].envelope.analysis[f] = runs[q].envelope.analysis[f]
        /\ runs[r].envelope.analysis[f].k \in {"str", "bool"}
C21_Witness ==
  /\ ViaFallback(1) /\ ViaFallback(2)
  /\ runs[1].transcript = <<"fraud", "Manager">>
  /\ runs[2].transcript = <<"fraud", "Manager">>
  /\ runs[1].audio_file_path = "demo.wav" /\ runs[2].audio_file_path = NONE
  /\ runs[1].envelope.session_id = "s1" /\ runs[2].envelope.session_id = "uuid-b"
  /\ Len(db) = 1 /\ db[1].session_id = "uuid-b"
  /\ runs[1].envelope.analysis["fraud_risk"] = BoolV(TRUE)
  /\ runs[1].envelope.analysis["escalation_required"] = BoolV(TRUE)

\* the direct invocation was of one of these tools
Invoked(tools) == pc = "tool_done" /\ toolCall.tool \in tools
FallbackRun == "_run_fallback_analysis"

\* C22 (as claimed): every transcript that contains "fraud", whatever else it contains,
\* is classified fraud_report and gives fraud_risk = true in the fallback's result.
C22_FraudAlwaysFraudReport ==
  (Invoked({"classify_intent", FallbackRun}) /\ Contains(toolCall.text, "fraud")) =>
    /\ toolCall.intent = "fraud_report"
    /\ toolCall.tool = FallbackRun => toolCall.analysis["fraud_risk"] = BoolV(TRUE)
\* C22 (amended): a transcript that contains "fraud" and not "loan" is classified
\* fraud_report and gives fraud_risk = true; when it also contains "loan" the loan check
\* wins: the intent is loan_repayment_query and fraud_risk is false.
C22_FraudUnlessLoan ==
  (Invoked({"classify_intent", FallbackRun}) /\ Contains(toolCall.text, "fraud")) =>
    IF Contains(toolCall.text, "loan")
      THEN /\ toolCall.intent = "loan_repayment_query"
           /\ toolCall.tool = FallbackRun =>
                toolCall.analysis["fraud_risk"] = BoolV(FALSE)
      ELSE /\ toolCall.intent = "fraud_report"
           /\ toolCall.tool = FallbackRun =>
                toolCall.analysis["fraud_risk"] = BoolV(TRUE)
C22_Witness ==
  /\ Invoked({FallbackRun})
  /\ toolCall.text = <<"FRAUD", "thanks">>
  /\ toolCall.intent = "fraud_report"
  /\ toolCall.analysis["fraud_risk"] = BoolV(TRUE)
  /\ toolCall.analysis["primary_intent"] = StrV("fraud_report")

HasEntry(reqs, ty, pr) == \E i \in DOMAIN reqs : reqs[i].type = ty /\ reqs[i].priority = pr

\* C23: every transcript that contains "manager" and "call back", in any letter case,
\* gets an escalation entry with priority HIGH and a callback_request entry with
\* priority MEDIUM, and need_callback and escalation_required true in the fallback.
C23_ManagerAndCallBack ==
  (Invoked({"detect_requirements", FallbackRun})
     /\ Contains(toolCall.text, "manager") /\ ContainsCallBack(toolCall.text)) =>
    /\ HasEntry(toolCall.reqs, "escalation", "HIGH")
    /\ HasEntry(toolCall.reqs, "callback_request", "MEDIUM")
    /\ toolCall.tool = FallbackRun =>
         /\ toolCall.analysis["need_callback"] = BoolV(TRUE)
         /\ toolCall.analysis["escalation_required"] = BoolV(TRUE)
C23_Witness ==
  /\ Invoked({FallbackRun})
  /\ toolCall.text = <<"Manager", "Call", "back">>
  /\ Len(toolCall.reqs) = 2
  /\ toolCall.analysis["need_callback"] = BoolV(TRUE)
  /\ toolCall.analysis["escalation_required"] = BoolV(TRUE)

\* C24: classify_intent's result is fixed by the transcript: the first matching category
\* wins, loan before fraud; without any category keyword it is general_inquiry with
\* confidence 0.5; the confidence is always within [0,1] (here in hundredths).
C24_ClassifyPriorityAndDefault ==
  Invoked({"classify_intent", FallbackRun}) =>
    /\ Contains(toolCall.text, "loan") => toolCall.intent = "loan_repayment_query"
    /\ (~Contains(toolCall.text, "loan")
          /\ (Contains(toolCall.text, "fraud") \/ Contains(toolCall.text, "unauthorized")))
         => toolCall.intent = "fraud_report"
    /\ (~Contains(toolCall.text, "loan") /\ ~Contains(toolCall.text, "fraud")
          /\ ~Contains(toolCall.text, "unauthorized"))
         => (toolCall.intent = "general_inquiry" /\ toolCall.confidence = 50)
    /\ toolCall.confidence \in 0..100
C24_Witness ==
  /\ Invoked({"classify_intent"})
  /\ toolCall.text = <<"unauthorized", "loan">>
  /\ toolCall.intent = "loan_repayment_query"
  /\ toolCall.confidence = 90

\* position of a requirement type in the fixed check order
CheckOrder(ty) ==
  CASE ty = "document_upload" -> 1
    [] ty = "callback_request" -> 2
    [] ty = "escalation" -> 3
    [] OTHER -> 0

\* C25: detect_requirements returns at most one entry per type, the entries in the order
\* document_upload, callback_request, escalation however often and in whatever order the
\* keywords occur, and every priority is HIGH, MEDIUM or LOW.
C25_RequirementsOncePerTypeInOrder ==
  Invoked({"detect_requirements", FallbackRun}) =>
    /\ \A i \in DOMAIN toolCall.reqs :
         /\ CheckOrder(toolCall.reqs[i].type) \in 1..3
         /\ toolCall.reqs[i].priority \in {"HIGH", "MEDIUM", "LOW"}
    /\ \A i \in DOMAIN toolCall.reqs : \A j \in DOMAIN toolCall.reqs :
         i < j => CheckOrder(toolCall.reqs[i].type) < CheckOrder(toolCall.reqs[j].type)
C25_Witness ==
  /\ Invoked({"detect_requirements"})
  /\ toolCall.text =
       <<"callback", "supervisor", "Call", "back", "documents", "Manager", "upload">>
  /\ Len(toolCall.reqs) = 3
  /\ toolCall.reqs[1].type = "document_upload"
  /\ toolCall.reqs[3].type = "escalation"

NegativeFamily(t) == \E w \in {"angry", "upset", "frustrated", "bad"} : Contains(t, w)
PositiveFamily(t) == \E w \in {"thank", "great", "happy"} : Contains(t, w)

\* C26: analyze_sentiment returns one of POSITIVE, NEGATIVE, NEUTRAL: NEGATIVE when a
\* negative keyword occurs (also next to a positive one), POSITIVE when only a positive
\* keyword occurs, NEUTRAL when no keyword of either family occurs.
C26_SentimentPriority ==
  Invoked({"analyze_sentiment", FallbackRun}) =>
    /\ toolCall.out_sentiment \in {"POSITIVE", "NEGATIVE", "NEUTRAL"}
    /\ NegativeFamily(toolCall.text) => toolCall.out_sentiment = "NEGATIVE"
    /\ (~NegativeFamily(toolCall.text) /\ PositiveFamily(toolCall.text))
         => toolCall.out_sentiment = "POSITIVE"
    /\ (~NegativeFamily(toolCall.text) /\ ~PositiveFamily(toolCall.text))
         => toolCall.out_sentiment = "NEUTRAL"
C26_Witness ==
  /\ Invoked({"analyze_sentiment"})
  /\ toolCall.text = <<"thanks", "badly">>
  /\ toolCall.out_sentiment = "NEGATIVE"

\* C27: overall_score is 75, minus 5 when the sentiment argument is NEGATIVE, plus 10
\* when the transcript has apology language, at most 100; it lies within [0,100].
C27_ScoreFormula ==
  Invoked({"score_agent_performance"}) =>
    /\ toolCall.score =
         75 - (IF toolCall.sentiment = "NEGATIVE" THEN 5 ELSE 0)
            + (IF Contains(toolCall.text, "apologize") \/ Contains(toolCall.text, "sorry")
                 THEN 10 ELSE 0)
    /\ toolCall.score \in 0..100
C27_Witness ==
  /\ Invoked({"score_agent_performance"})
  /\ toolCall.text = <<"SORRY", "hello">>
  /\ toolCall.sentiment = "NEGATIVE"
  /\ toolCall.score = 80

\* the tools the fallback invoked, in order
FallbackCalls == SelectSeq(toolLog, ByFallback)
ToolsOf(log) == [i \in DOMAIN log |-> log[i].tool]

\* C28: a fallback run invokes, each exactly once and in this order, transcribe_audio (only
\* when it has no transcript), classify_intent, detect_requirements, analyze_sentiment,
\* score_agent_performance with the sentiment analyze_sentiment returned, and last
\* save_to_database with the run's session id.
C28_FallbackOrdering ==
  (Returned /\ "FALLBACK" \in Range(states)) =>
    /\ ToolsOf(FallbackCalls) =
         (IF TruthyText(transcript) THEN <<>> ELSE <<"transcribe_audio">>)
         \o <<"classify_intent", "detect_requirements", "analyze_sentiment",
              "score_agent_performance", "save_to_database">>
    /\ \A i \in DOMAIN FallbackCalls :
         /\ FallbackCalls[i].tool = "transcribe_audio" => FallbackCalls[i].arg = audio_file
         /\ FallbackCalls[i].tool = "score_agent_performance" =>
              /\ FallbackCalls[i].arg \in {"POSITIVE", "NEGATIVE", "NEUTRAL"}
              /\ Capitalize(FallbackCalls[i].arg) = envelope.analysis["sentiment"].s
         /\ FallbackCalls[i].tool = "save_to_database" =>
              (i = Len(FallbackCalls) /\ FallbackCalls[i].arg = session_id)
C28_Witness ==
  /\ pc = "done"
  /\ states = <<"INIT", "FALLBACK", "SUCCESS", "DONE">>
  /\ audio_file = "demo.wav"
  /\ transcript = <<>>
  /\ Len(toolLog) = 6
  /\ toolLog[1] = Entry("transcribe_audio", "fallback", "demo.wav")
  /\ toolLog[6].tool = "save_to_database"

\* C29: in a fallback result conversation_rating is overall_score / 10 rounded down and
\* lies in 1..10, for every score the tool gives (70, 75, 80, 85).
C29_RatingIsScoreDivTen ==
  Invoked({FallbackRun}) =>
    /\ toolCall.score \in {70, 75, 80, 85}
    /\ toolCall.analysis["conversation_rating"].k = "int"
    /\ toolCall.analysis["conversation_rating"].n * 10 <= toolCall.score
    /\ toolCall.score < toolCall.analysis["conversation_rating"].n * 10 + 10
    /\ toolCall.analysis["conversation_rating"].n \in 1..10
C29_Witness ==
  /\ Invoked({FallbackRun})
  /\ toolCall.text = <<"hello", "SORRY">>
  /\ toolCall.score = 85
  /\ toolCall.analysis["conversation_rating"] = IntV(8)

\* C30: in a fallback result need_callback is true iff the requirements have a
\* callback_request entry, escalation_required iff they have an escalation entry,
\* fraud_risk iff the intent is fraud_report, primary_intent is the intent, and
\* follow_up_tasks lists the requirements' descriptions in their order.
C30_FlagsFromFragments ==
  Invoked({FallbackRun}) =>
    /\ toolCall.analysis["need_callback"] =
         BoolV(\E i \in DOMAIN toolCall.reqs : toolCall.reqs[i].type = "callback_request")
    /\ toolCall.analysis["escalation_required"] =
         BoolV(\E i \in DOMAIN toolCall.reqs : toolCall.reqs[i].type = "escalation")
    /\ toolCall.analysis["fraud_risk"] = BoolV(toolCall.intent = "fraud_report")
    /\ toolCall.analysis["primary_intent"] = StrV(toolCall.intent)
    /\ toolCall.analysis["follow_up_tasks"] =
         ListV([i \in DOMAIN toolCall.reqs |-> toolCall.reqs[i].description])
C30_Witness ==
  /\ Invoked({FallbackRun})
  /\ toolCall.text = <<"Manager", "callback", "upload">>
  /\ toolCall.analysis["follow_up_tasks"] =
       ListV(<<"Needs to submit verification documents", "Customer requested a call back",
               "Requested supervisor attention">>)
  /\ toolCall.analysis["fraud_risk"] = BoolV(FALSE)

IsPrefix(p, q) == Len(p) <= Len(q) /\ SubSeq(q, 1, Len(p)) = p

\* C31: without an agent (the model backend could not be initialized) every run goes from
\* INIT straight to the Fallback Pipeline: the reasoning loop is never invoked, nothing is
\* extracted, and the envelope returned is the fallback's.
C31_NoAgentGoesToFallback ==
  (~agent /\ states # <<>>) =>
    /\ IsPrefix(<<"INIT", "FALLBACK">>, states)
    /\ "REASONING" \notin Range(states)
    /\ \A i \in DOMAIN toolLog : toolLog[i].by = "fallback"
    /\ final_msg_content = <<>>
    /\ json_data = EmptyRecord
    /\ Returned =>
         /\ exc = ""
         /\ envelope = FallbackEnvelope(session_id,
                         FallbackRecord(FallbackText(audio_file, transcript)))
C31_Witness ==
  /\ pc = "done"
  /\ ~agent
  /\ states = <<"INIT", "FALLBACK", "SUCCESS", "DONE">>
  /\ transcript = <<"loans", "FRAUD">>
  /\ envelope.analysis["primary_intent"] = StrV("loan_repayment_query")
  /\ Len(db) = 1

ModelPathStates == <<"INIT", "REASONING", "EXTRACTING", "VALIDATING", "SUCCESS", "DONE">>

C33_SuccessImpliesSaveAttempted ==
  (Returned /\ exc = "" /\ envelope.status = "success") =>
    \E i \in DOMAIN toolLog :
      toolLog[i].tool = "save_to_database" /\ toolLog[i].arg = session_id


\* ------------------------------------------------------------------ SpecUnified
\* The unified API (api_main.py) on one row of table calls: the requests POST /upload,
\* POST /text and POST /process/{call_id}, and the background tasks they add. Handlers and
\* tasks are coroutines of one event loop: a handler runs at once, a task added by
\* add_task starts after its response has been sent, so other requests and tasks run in
\* between; the only await inside a task is langchain_app.analyze_call (line 185).
UnifiedTexts == {<<"thanks", "Call", "back">>, <<"badly">>}
\* audio_to_text: a transcript, an empty one (silence), or an exception
TranscribeOutcomes == UnifiedTexts \cup {<<>>, NoneText}
\* str(call_id)
CallId == "1"
EngineError == [NoResult EXCEPT !.keys = {"error", "status"}]
\* the formatted envelope of the fallback's run on each transcript, and of a run whose
\* final message held no record
FallbackResults ==
  [t \in UnifiedTexts |->
     extract_langchain_result(FallbackEnvelope(CallId, FallbackRecord(t)))]
DegradedResult == extract_langchain_result(DegradedEnvelope(CallId, EmptyRecord))
\* what lines 184-191 leave in langchain_res: the formatted envelope of the run, or the
\* error record when analyze_call raised; without an agent the run is the fallback's
LangchainResults(ag, text) ==
  {FallbackResults[text]} \cup (IF ag THEN {EngineError, DegradedResult} ELSE {})
Response(code, keys, status) ==
  [NoHttp EXCEPT !.code = code, !.keys = keys, !.status = status]

InitUnified ==
  /\ agent \in BOOLEAN
  /\ files = {"demo.wav"}
  /\ frontend = "unified"
  /\ audio_file = NONE
  /\ transcript = NoneText
  /\ session_arg = NONE
  /\ session_id = ""
  /\ pc = "unified"
  /\ states = <<>>
  /\ toolLog = <<>>
  /\ final_msg_content = <<>>
  /\ json_data = EmptyRecord
  /\ envelope = NoEnvelope
  /\ exc = ""
  /\ db = <<>>
  /\ http = NoHttp
  /\ call = NoCall
  /\ toolCall = NoToolCall
  /\ NoSessions
  /\ NoTasks

rest ==
  <<agent, files, frontend, audio_file, transcript, session_arg, session_id, pc, states,
    toolLog, final_msg_content, json_data, envelope, exc, db, toolCall, runs, frames,
    checkpoints>>

\* lines 247-273: POST /text; a blank text and a failing insert both answer 500
analyze_text_input(t) ==
  /\ pc = "unified"
  /\ call.status = "NONE"
  /\ IF t = <<>> \/ ~reachable
       THEN /\ http' = Response(500, {"detail"}, "")
            /\ UNCHANGED <<call, tasks>>
       ELSE /\ call' = [NoCall EXCEPT !.status = "TRANSCRIBED", !.transcript = t]
            /\ tasks' = Append(tasks, Task("analyze"))
            /\ http' = Response(200, {"call_id", "status", "message"}, "TRANSCRIBED")
  /\ UNCHANGED <<rest, reachable>>

\* lines 276-315: POST /upload
upload_audio ==
  /\ pc = "unified"
  /\ call.status = "NONE"
  /\ IF ~reachable
       THEN /\ http' = Response(500, {"detail"}, "")
            /\ UNCHANGED <<call, tasks>>
       ELSE /\ call' = [NoCall EXCEPT !.status = "PENDING"]
            /\ tasks' = Append(tasks, Task("transcribe"))
            /\ http' = Response(200, {"call_id", "status"}, "PENDING")
  /\ UNCHANGED <<rest, reachable>>

\* lines 318-338: POST /process/{call_id}; the status is read, and the task added later
\* writes it
trigger_analysis ==
  /\ pc = "unified"
  /\ IF ~reachable
       THEN /\ http' = Response(500, {"detail"}, "")
            /\ UNCHANGED <<call, tasks>>
       ELSE IF call.status = "NONE"
         THEN /\ http' = Response(404, {"detail"}, "")
              /\ UNCHANGED <<call, tasks>>
         ELSE IF call.status = "COMPLETED" \/ call.status = "ANALYZING"
           THEN /\ http' = Response(200, {"status", "message"}, call.status)
                /\ UNCHANGED <<call, tasks>>
           ELSE /\ Len(tasks) < Cardinality(TaskSlots)
                /\ tasks' = Append(tasks, Task("analyze"))
                /\ http' = Response(200, {"call_id", "status"}, "ANALYZING")
                /\ UNCHANGED call
  /\ UNCHANGED <<rest, reachable>>

\* lines 115-143: the transcript and status TRANSCRIBED are written whatever the row
\* holds; an exception writes FAILED, and a database error in the handler is only logged
background_transcribe(i) ==
  /\ pc = "unified"
  /\ i \in DOMAIN tasks
  /\ tasks[i].kind = "transcribe"
  /\ tasks[i].pc = "scheduled"
  /\ tasks' = [tasks EXCEPT ![i].pc = "done"]
  /\ \E out \in TranscribeOutcomes :
       IF ~reachable
         THEN UNCHANGED call
         ELSE IF out = NoneText
           THEN call' = [call EXCEPT !.status = "FAILED"]
           ELSE call' = [call EXCEPT !.status = "TRANSCRIBED", !.transcript = out]
  /\ UNCHANGED <<rest, http, reachable>>

\* mutant: a failure of the pre-built engine fails the job
background_analyzeEngineFails(i) ==
  /\ pc = "unified"
  /\ i \in DOMAIN tasks
  /\ tasks[i].kind = "analyze"
  /\ tasks[i].pc = "scheduled"
  /\ IF ~reachable
       THEN /\ tasks' = [tasks EXCEPT ![i].pc = "done"]
            /\ UNCHANGED call
       ELSE IF ~TruthyText(call.transcript)
         THEN /\ tasks' = [tasks EXCEPT ![i].pc = "done"]
              /\ call' = [call EXCEPT !.status = "FAILED"]
         ELSE \E p \in {"result", "error"} :
                IF p = "error"
                  THEN /\ tasks' = [tasks EXCEPT ![i].pc = "done",
                                                 ![i].transcript = call.transcript,
                                                 ![i].prebuilt_res = p]
                       /\ call' = [call EXCEPT !.status = "FAILED"]
                  ELSE IF agent
                    THEN /\ tasks' = [tasks EXCEPT ![i].pc = "awaiting",
                                                   ![i].transcript = call.transcript,
                                                   ![i].prebuilt_res = p]
                         /\ call' = [call EXCEPT !.status = "ANALYZING"]
                    ELSE /\ tasks' = [tasks EXCEPT ![i].pc = "done",
                                                   ![i].transcript = call.transcript,
                                                   ![i].prebuilt_res = p]
                         /\ \E l \in LangchainResults(agent, call.transcript) :
                              call' = [call EXCEPT !.status = "COMPLETED", !.prebuilt = p,
                                                   !.langchain_result = l]
  /\ UNCHANGED <<rest, http, reachable>>

\* lines 146-185 and 213-224: status ANALYZING is written whatever the row holds, the
\* transcript is read back (none: ValueError, status FAILED), the pre-built engine runs
\* (its exception becomes its result), then analyze_call is awaited; without an agent
\* analyze_call never suspends and lines 186-211 follow at once
background_analyze(i) ==
  /\ pc = "unified"
  /\ i \in DOMAIN tasks
  /\ tasks[i].kind = "analyze"
  /\ tasks[i].pc = "scheduled"
  /\ IF ~reachable
       THEN /\ tasks' = [tasks EXCEPT ![i].pc = "done"]
            /\ UNCHANGED call
       ELSE IF ~TruthyText(call.transcript)
         THEN /\ tasks' = [tasks EXCEPT ![i].pc = "done"]
              /\ call' = [call EXCEPT !.status = "FAILED"]
         ELSE \E p \in {"result", "error"} :
                IF agent
                  THEN /\ tasks' = [tasks EXCEPT ![i].pc = "awaiting",
                                                 ![i].transcript = call.transcript,
                                                 ![i].prebuilt_res = p]
                       /\ call' = [call EXCEPT !.status = "ANALYZING"]
                  ELSE /\ tasks' = [tasks EXCEPT ![i].pc = "done",
                                                 ![i].transcript = call.transcript,
                                                 ![i].prebuilt_res = p]
                       /\ \E l \in LangchainResults(agent, call.transcript) :
                            call' = [call EXCEPT !.status = "COMPLETED", !.prebuilt = p,
                                                 !.langchain_result = l]
  /\ UNCHANGED <<rest, http, reachable>>

\* lines 186-224: analyze_call has returned or raised; both results and status COMPLETED
\* are written whatever the row holds; a database error in the handler is only logged
background_analyze_resume(i) ==
  /\ pc = "unified"
  /\ i \in DOMAIN tasks
  /\ tasks[i].kind = "analyze"
  /\ tasks[i].pc = "awaiting"
  /\ tasks' = [tasks EXCEPT ![i].pc = "done"]
  /\ \E l \in LangchainResults(agent, tasks[i].transcript) :
       IF ~reachable
         THEN UNCHANGED call
         ELSE call' = [call EXCEPT !.status = "COMPLETED", !.prebuilt = tasks[i].prebuilt_res,
                                   !.langchain_result = l]
  /\ UNCHANGED <<rest, http, reachable>>

\* get_connection() starts to raise, and stops raising
DbOutage ==
  /\ pc = "unified"
  /\ reachable
  /\ reachable' = FALSE
  /\ UNCHANGED <<rest, http, call, tasks>>
DbRecover ==
  /\ pc = "unified"
  /\ ~reachable
  /\ reachable' = TRUE
  /\ UNCHANGED <<rest, http, call, tasks>>

TaskStep(i) ==
  \/ background_transcribe(i)
  \/ background_analyze(i)
  \/ background_analyze_resume(i)

NextUnified ==
  \/ \E t \in UnifiedTexts \cup {<<>>} : analyze_text_input(t)
  \/ upload_audio
  \/ trigger_analysis
  \/ \E i \in TaskSlots : background_transcribe(i)
  \/ \E i \in TaskSlots : background_analyze(i)
  \/ \E i \in TaskSlots : background_analyze_resume(i)
  \/ DbOutage
  \/ DbRecover

SpecUnified == InitUnified /\ [][NextUnified]_vars

\* Starlette runs every added task once its response is sent, and the event loop resumes
\* a task when the awaited analyze_call has returned or raised
SpecUnifiedFair ==
  /\ InitUnified
  /\ [][NextUnified]_vars
  /\ WF_vars(\E i \in TaskSlots : TaskStep(i))


\* background_analyze tasks that have started and not finished
InProgress == {i \in DOMAIN tasks : tasks[i].kind = "analyze" /\ tasks[i].pc = "awaiting"}

\* C34 (as claimed): at most one background analysis of the call is in progress at any
\* time, whatever the interleaving of POST /process requests and the analysis started by
\* POST /text.
C34_AtMostOneAnalysis == Cardinality(InProgress) <= 1

\* C35 (as claimed): COMPLETED is terminal: once the status is COMPLETED no later action
\* changes the status or overwrites the stored prebuilt_result and langchain_result.
C35_CompletedIsTerminal ==
  [][call.status = "COMPLETED" =>
       /\ call'.status = "COMPLETED"
       /\ call'.prebuilt = call.prebuilt
       /\ call'.langchain_result = call.langchain_result]_vars

StatusRank(s) ==
  CASE s = "NONE" -> 0
    [] s = "PENDING" -> 1
    [] s = "TRANSCRIBED" -> 2
    [] s = "ANALYZING" -> 3
    [] OTHER -> 4

\* C36 (as claimed): the status only moves forward along PENDING -> TRANSCRIBED ->
\* ANALYZING -> {COMPLETED, FAILED}; ANALYZING is entered only from TRANSCRIBED with a
\* stored transcript, and a call marked FAILED or ANALYZING never returns to TRANSCRIBED.
C36_StatusMovesForward ==
  [][/\ StatusRank(call'.status) >= StatusRank(call.status)
     /\ (call'.status = "ANALYZING" /\ call.status # "ANALYZING") =>
          (call.status = "TRANSCRIBED" /\ TruthyText(call.transcript))
     /\ call.status \in {"FAILED", "ANALYZING"} => call'.status # "TRANSCRIBED"]_vars

\* background_analyze tasks added and not finished
Unfinished == {i \in DOMAIN tasks : tasks[i].kind = "analyze" /\ tasks[i].pc # "done"}

\* task i of background_analyze finishes in this step while the database is reachable
Settles(i) ==
  /\ i \in DOMAIN tasks
  /\ tasks[i].kind = "analyze"
  /\ tasks[i].pc # "done"
  /\ tasks'[i].pc = "done"
  /\ reachable

\* C37: while the database stays reachable every started background_analyze ends with the
\* call in COMPLETED or FAILED and the call never stays in ANALYZING; a run that found a
\* transcript stores both result fields together with status COMPLETED, an engine's
\* failure being recorded in its result field and not failing the job; FAILED is written
\* only when no transcript was found.
C37_AnalysisSettles ==
  /\ [][\A i \in TaskSlots :
          Settles(i) =>
            IF TruthyText(tasks'[i].transcript)
              THEN /\ call'.status = "COMPLETED"
                   /\ call'.prebuilt = tasks'[i].prebuilt_res
                   /\ call'.prebuilt \in {"result", "error"}
                   /\ call'.langchain_result \in LangchainResults(agent, tasks'[i].transcript)
              ELSE call'.status = "FAILED"]_vars
  /\ []reachable =>
       ((Unfinished # {} \/ call.status = "ANALYZING")
          ~> (Unfinished = {} /\ call.status # "ANALYZING"))
C37_Witness ==
  /\ pc = "unified"
  /\ reachable
  /\ tasks # <<>>
  /\ \A i \in DOMAIN tasks : tasks[i].kind = "analyze" /\ tasks[i].pc = "done"
  /\ call.status = "COMPLETED"
  /\ call.prebuilt = "error"
  /\ call.langchain_result.keys = UnifiedKeys

====
